---- MODULE Spec2Model ----
(***************************************************************************)
(* A model of the planning core of remy: the rule engine                   *)
(* (planner/app/constraint_engine.py), the candidate builder and plan      *)
(* generator (planner/app/planner.py) and the diff/validate agent          *)
(* (agents/diff_validator.py).                                             *)
(*                                                                         *)
(* Numbers.  Python floats are modelled in fixed point:                    *)
(*   - an inventory or leftover `quantity` is in hundredths of its unit;   *)
(*   - every amount of a plan (quantity, use, need) and every bucket is    *)
(*     in millionths (1e-6) of g / ml / count, so the 1e-6 epsilon of the  *)
(*     validator is the amount 1;                                          *)
(*   - a conversion factor of the unit tables is in 1e-4, so that          *)
(*     hundredths * factor = millionths;                                   *)
(*   - macros are in tenths (the code rounds them to one decimal);         *)
(*   - rule scores are in 1e-4.                                            *)
(* Optional numeric fields are all constrained ge=0 by the pydantic        *)
(* models, so None is encoded as -1.  Names and units are strings and are  *)
(* normalised character by character.                                      *)
(***************************************************************************)
EXTENDS Integers, Sequences, FiniteSets, TLC

VARIABLES
    context,                \* PlanningContext handed to the operation
    plan,                   \* Plan handed to DiffValidator.run
    pc,                     \* position of the running operation
    inventory_state,        \* DiffValidator.run: id -> InventoryBuckets (shared)
    unit_warnings,          \* DiffValidator.run: id -> warning text
    name_index,             \* DiffValidator.run: normalised name -> id
    candidate_inventory,    \* DiffValidator.run: the working copy of one candidate
    usage,                  \* _normalize_candidate: insertion-ordered id -> amounts
    shortfalls,             \* _normalize_candidate: list of ShoppingShortfall
    diagnostics,            \* _normalize_candidate: list of messages
    diag_seen,              \* _normalize_candidate: set of messages
    ci,                     \* index of the candidate being normalised
    ri,                     \* index of the next requirement of that candidate
    normalized_candidates,  \* DiffValidator.run: the candidates done so far
    result1,                \* the Plan returned by run((context, plan))
    result2,                \* the Plan returned by run((context, result1))
    catalog,                \* rank_recipes: the recipes handed to it
    snapshot,               \* rank_recipes: the PlanningSnapshot of the call
    evaluations,            \* rank_recipes: the list of ConstraintEvaluation
    recipe_i,               \* rank_recipes: index of the next recipe
    ranked1,                \* the list returned by rank_recipes(context, catalog)
    ranked2,                \* the list returned by a second, identical call
    settings,               \* get_settings(): the planner_llm_* settings
    llm_plan,               \* generate_plan: what _generate_plan_with_llm returned
    candidates,             \* _generate_rule_based_plan: its list of candidates
    returned,               \* the Plan generate_plan returned to its caller
    receipts,               \* receipts table: id -> what the row and its blob hold
    ocr_results,            \* receipt_ocr_results table: id -> status and payload
    updated_order,          \* the ids of receipt_ocr_results by updated_at, oldest first
    ingested,               \* id -> number of ingest_receipt_items calls made for it
    receipt_ids,            \* poll_once: the claimed ids not yet handled
    processed,              \* poll_once: its counter
    calls,                  \* caller -> the locals of its process_receipt call
    manual_runs             \* number of process_receipt calls made on request

vars == <<context, plan, pc, inventory_state, unit_warnings, name_index,
          candidate_inventory, usage, shortfalls, diagnostics, diag_seen, ci, ri,
          normalized_candidates, result1, result2, catalog, snapshot, evaluations,
          recipe_i, ranked1, ranked2, settings, llm_plan, candidates, returned,
          receipts, ocr_results, updated_order, ingested, receipt_ids, processed,
          calls, manual_runs>>

\* the variables of rank_recipes and of generate_plan
rank_vars == <<catalog, snapshot, evaluations, recipe_i, ranked1, ranked2>>
plan_vars == <<settings, llm_plan, candidates, returned>>

\* the variables of the receipt OCR pipeline and its worker
ocr_vars == <<receipts, ocr_results, updated_order, ingested, receipt_ids, processed,
              calls, manual_runs>>

\* no receipt is stored and no OCR is running
OcrIdle ==
    /\ receipts = <<>>
    /\ ocr_results = <<>>
    /\ updated_order = <<>>
    /\ ingested = <<>>
    /\ receipt_ids = <<>>
    /\ processed = 0
    /\ calls = <<>>
    /\ manual_runs = 0

None == -1

Min(a, b) == IF a <= b THEN a ELSE b
Max(a, b) == IF a >= b THEN a ELSE b

Range(s) == {s[i] : i \in 1..Len(s)}

(***************************************************************************)
(* Strings: str.lower, str.strip, str.split, " ".join, `a in b`.           *)
(***************************************************************************)
UpperChars == "ABCDEFGHIJKLMNOPQRSTUVWXYZ"
LowerChars == "abcdefghijklmnopqrstuvwxyz"

LowerTable ==
    [c \in {SubSeq(UpperChars, i, i) : i \in 1..26} |->
        LET i == CHOOSE k \in 1..26 : SubSeq(UpperChars, k, k) = c
        IN  SubSeq(LowerChars, i, i)]

LowerChar(c) == IF c \in DOMAIN LowerTable THEN LowerTable[c] ELSE c

\* s[i:].lower()
RECURSIVE LowerFrom(_, _)
LowerFrom(s, i) ==
    IF i > Len(s) THEN ""
    ELSE LowerChar(SubSeq(s, i, i)) \o LowerFrom(s, i + 1)

lower(s) == LowerFrom(s, 1)

IsSpace(c) == c = " "

\* the first index from i on where s has (want = TRUE) or has not a space;
\* Len(s) + 1 if there is none
RECURSIVE Scan(_, _, _)
Scan(s, i, want) ==
    IF i > Len(s) THEN i
    ELSE IF IsSpace(SubSeq(s, i, i)) = want THEN i
    ELSE Scan(s, i + 1, want)

\* s[i:].split(): the maximal runs of non-whitespace characters
RECURSIVE SplitFrom(_, _)
SplitFrom(s, i) ==
    LET start == Scan(s, i, FALSE)
        stop  == Scan(s, start, TRUE)
    IN  IF start > Len(s) THEN <<>>
        ELSE <<SubSeq(s, start, stop - 1)>> \o SplitFrom(s, stop)

split(s) == SplitFrom(s, 1)

RECURSIVE join(_, _)
join(sep, words) ==
    IF Len(words) = 0 THEN ""
    ELSE IF Len(words) = 1 THEN words[1]
    ELSE words[1] \o sep \o join(sep, Tail(words))

\* the last index up to i where s has no space; 0 if there is none
RECURSIVE ScanBack(_, _)
ScanBack(s, i) ==
    IF i < 1 THEN 0
    ELSE IF ~IsSpace(SubSeq(s, i, i)) THEN i
    ELSE ScanBack(s, i - 1)

strip(s) == SubSeq(s, Scan(s, 1, FALSE), ScanBack(s, Len(s)))

\* Python's `needle in hay` on strings
Contains(hay, needle) ==
    \E i \in 1..(Len(hay) - Len(needle) + 1) :
        SubSeq(hay, i, i + Len(needle) - 1) = needle

\* planner/app/utils.py normalize_name
normalize_name(value) == join(" ", split(lower(value)))

\* DiffValidator._normalize_name
_normalize_name(name) == lower(strip(join(" ", split(name))))

(***************************************************************************)
(* agents/diff_validator.py: the unit tables (factors in 1e-4)             *)
(***************************************************************************)
_WEIGHT_UNITS ==
    ("g" :> 10000) @@ ("gram" :> 10000) @@ ("grams" :> 10000) @@
    ("kg" :> 10000000) @@ ("kilogram" :> 10000000) @@ ("kilograms" :> 10000000) @@
    ("mg" :> 10) @@ ("milligram" :> 10) @@ ("milligrams" :> 10) @@
    ("lb" :> 4535920) @@ ("lbs" :> 4535920) @@ ("pound" :> 4535920) @@
    ("pounds" :> 4535920) @@
    ("oz" :> 283495) @@ ("ounce" :> 283495) @@ ("ounces" :> 283495)

_VOLUME_UNITS ==
    ("ml" :> 10000) @@ ("milliliter" :> 10000) @@ ("milliliters" :> 10000) @@
    ("l" :> 10000000) @@ ("liter" :> 10000000) @@ ("liters" :> 10000000) @@
    ("cup" :> 2400000) @@ ("cups" :> 2400000) @@
    ("tbsp" :> 150000) @@ ("tablespoon" :> 150000) @@ ("tablespoons" :> 150000) @@
    ("tbs" :> 150000) @@
    ("tsp" :> 50000) @@ ("teaspoon" :> 50000) @@ ("teaspoons" :> 50000) @@
    ("fl oz" :> 295735) @@ ("floz" :> 295735) @@ ("fluid ounce" :> 295735) @@
    ("fluid ounces" :> 295735) @@
    ("pint" :> 4731760) @@ ("pints" :> 4731760) @@
    ("quart" :> 9463530) @@ ("quarts" :> 9463530) @@
    ("gallon" :> 37854100) @@ ("gallons" :> 37854100)

_COUNT_UNITS == {"count", "ea", "each", "unit", "piece", "pieces", "pc", "pcs"}

\* grams per count, in whole grams
_COUNT_TO_WEIGHT_G == 75

\* the epsilon 1e-6 of _normalize_candidate and _maybe_value, in millionths
Epsilon == 1

InventoryBuckets(g, ml, n) == [weight_g |-> g, volume_ml |-> ml, count |-> n]

\* InventoryBuckets.clone
clone(buckets) ==
    InventoryBuckets(buckets.weight_g, buckets.volume_ml, buckets.count)

\* DiffValidator._convert_unit; quantity in hundredths, value in millionths
ConvertAllToCount(quantity, unit) ==
    [unit_type |-> "count", value |-> quantity * 10000, recognized |-> TRUE]

_convert_unit(quantity, unit) ==
    IF unit \in DOMAIN _WEIGHT_UNITS
    THEN [unit_type |-> "g", value |-> quantity * _WEIGHT_UNITS[unit], recognized |-> TRUE]
    ELSE IF unit \in DOMAIN _VOLUME_UNITS
    THEN [unit_type |-> "ml", value |-> quantity * _VOLUME_UNITS[unit], recognized |-> TRUE]
    ELSE IF unit \in _COUNT_UNITS \/ unit = ""
    THEN [unit_type |-> "count", value |-> quantity * 10000, recognized |-> TRUE]
    ELSE [unit_type |-> "count", value |-> quantity * 10000, recognized |-> FALSE]

UnitWarning(item) ==
    "Inventory item '" \o item.name \o "' uses unit '" \o item.unit
        \o "', treated as count."

\* One iteration of the loop of _build_inventory_state over `item`
BuildInventoryStep(acc, item) ==
    LET unit == lower(strip(item.unit))
        conv == _convert_unit(item.quantity, unit)
        buckets ==
            IF conv.unit_type = "g" THEN InventoryBuckets(conv.value, 0, 0)
            ELSE IF conv.unit_type = "ml" THEN InventoryBuckets(0, conv.value, 0)
            ELSE InventoryBuckets(0, 0, conv.value)
    IN  IF item.quantity <= 0 THEN acc
        ELSE [state |-> (item.id :> buckets) @@ acc.state,
              warnings |-> IF conv.recognized THEN acc.warnings
                           ELSE (item.id :> UnitWarning(item)) @@ acc.warnings]

RECURSIVE BuildInventoryFold(_, _)
BuildInventoryFold(acc, inventory) ==
    IF Len(inventory) = 0 THEN acc
    ELSE BuildInventoryFold(BuildInventoryStep(acc, Head(inventory)), Tail(inventory))

\* DiffValidator._build_inventory_state
_build_inventory_state(inventory) ==
    BuildInventoryFold([state |-> <<>>, warnings |-> <<>>], inventory)

\* DiffValidator._build_name_index: the first item of a name wins
_build_name_index(inventory) ==
    LET names == {_normalize_name(inventory[i].name) : i \in 1..Len(inventory)} \ {""}
    IN  [n \in names |->
            inventory[CHOOSE i \in 1..Len(inventory) :
                          /\ _normalize_name(inventory[i].name) = n
                          /\ \A j \in 1..(i - 1) :
                                 _normalize_name(inventory[j].name) # n].id]

(***************************************************************************)
(* agents/diff_validator.py: _normalize_candidate and its helpers          *)
(***************************************************************************)
IngredientRequirement(id, name, g, ml, n) ==
    [ingredient_id |-> id, name |-> name,
     quantity_g |-> g, quantity_ml |-> ml, quantity_count |-> n]

InventoryDelta(id, g, ml, n) ==
    [ingredient_id |-> id, use_g |-> g, use_ml |-> ml, use_count |-> n]

ShoppingShortfall(id, name, g, ml, n, reason) ==
    [ingredient_id |-> id, name |-> name,
     need_g |-> g, need_ml |-> ml, need_count |-> n, reason |-> reason]

Macros(kcal, protein, carb, fat) ==
    [kcal |-> kcal, protein_g |-> protein, carb_g |-> carb, fat_g |-> fat]

\* macros_per_serving = None
NoMacros == [none |-> TRUE]

\* DiffValidator._extract_requirement_amount
_extract_requirement_amount(requirement) ==
    IF requirement.quantity_g # None
    THEN [amount |-> requirement.quantity_g, type |-> "g"]
    ELSE IF requirement.quantity_ml # None
    THEN [amount |-> requirement.quantity_ml, type |-> "ml"]
    ELSE IF requirement.quantity_count # None
    THEN [amount |-> requirement.quantity_count, type |-> "count"]
    ELSE [amount |-> None, type |-> "None"]

\* DiffValidator._resolve_inventory_id
_resolve_inventory_id(requirement, index) ==
    IF requirement.ingredient_id # None THEN requirement.ingredient_id
    ELSE LET normalized == _normalize_name(requirement.name)
         IN  IF normalized \in DOMAIN index THEN index[normalized] ELSE None

\* DiffValidator._build_shortfall
_build_shortfall(requirement, req_type, amount, reason, ingredient_id) ==
    ShoppingShortfall(ingredient_id, requirement.name,
                      IF req_type = "g" THEN amount ELSE None,
                      IF req_type = "ml" THEN amount ELSE None,
                      IF req_type = "count" THEN amount ELSE None,
                      reason)

\* DiffValidator._maybe_value
_maybe_value(value) ==
    IF value = None THEN None
    ELSE IF value > Epsilon THEN value ELSE None

\* DiffValidator._available_for_type
_available_for_type(buckets, req_type) ==
    IF req_type = "g" THEN buckets.weight_g
    ELSE IF req_type = "ml" THEN buckets.volume_ml
    ELSE buckets.count

\* DiffValidator._decrement_bucket (the buckets after the assignment)
_decrement_bucket(buckets, req_type, amount) ==
    IF req_type = "g"
    THEN [buckets EXCEPT !.weight_g = Max(0, buckets.weight_g - amount)]
    ELSE IF req_type = "ml"
    THEN [buckets EXCEPT !.volume_ml = Max(0, buckets.volume_ml - amount)]
    ELSE [buckets EXCEPT !.count = Max(0, buckets.count - amount)]

\* DiffValidator._add_diag (the list and the set after the call)
_add_diag(diags, seen, message) ==
    IF message = "" \/ message \in seen
    THEN [diagnostics |-> diags, seen |-> seen]
    ELSE [diagnostics |-> Append(diags, message), seen |-> seen \cup {message}]

\* use_amount = min(req_amount, available)
UseAmountUnclamped(req_amount, available) == req_amount

UseAmount(req_amount, available) == Min(req_amount, available)

\* deficit > 1e-6
DeficitReportedAlways(deficit) == deficit >= 0

DeficitReported(deficit) == deficit > Epsilon

\* usage.setdefault(inventory_id, {...})[f"use_{req_type}"] += use_amount
AddUsage(use, inventory_id, req_type, use_amount) ==
    LET entries ==
            IF \E k \in 1..Len(use) : use[k].ingredient_id = inventory_id
            THEN use
            ELSE Append(use, InventoryDelta(inventory_id, 0, 0, 0))
        at == CHOOSE k \in 1..Len(entries) : entries[k].ingredient_id = inventory_id
    IN  [entries EXCEPT
            ![at] = IF req_type = "g" THEN [@ EXCEPT !.use_g = @ + use_amount]
                    ELSE IF req_type = "ml" THEN [@ EXCEPT !.use_ml = @ + use_amount]
                    ELSE [@ EXCEPT !.use_count = @ + use_amount]]

\* The locals of _normalize_candidate before its loop
UsageCarriedOver(candidate) ==
    [k \in 1..Len(candidate.inventory_deltas) |->
        LET d == candidate.inventory_deltas[k]
        IN  InventoryDelta(d.ingredient_id, Max(d.use_g, 0), Max(d.use_ml, 0),
                           Max(d.use_count, 0))]

NewUsage(candidate) == <<>>

ShortfallsCarriedOver(candidate) == candidate.shopping_shortfall

NewShortfalls(candidate) == <<>>

MissingReasonInsufficient == "insufficient_stock"

\* _normalize_candidate, line 221: the reason of the unresolved branch
MissingReason == "not_in_inventory"

\* One iteration of the loop of _normalize_candidate over `requirement`;
\* st holds the working inventory and the locals usage, shortfalls,
\* diagnostics and diag_seen
NormalizeStep(st, requirement, index, warnings) ==
    LET req == _extract_requirement_amount(requirement)
        inventory_id == _resolve_inventory_id(requirement, index)
    IN  IF req.amount = None \/ req.amount <= 0 THEN st
        ELSE IF inventory_id # None /\ inventory_id \in DOMAIN st.inventory
        THEN LET buckets    == st.inventory[inventory_id]
                 available  == _available_for_type(buckets, req.type)
                 use_amount == UseAmount(req.amount, available)
                 deficit    == req.amount - use_amount
                 diag == IF use_amount > 0 /\ inventory_id \in DOMAIN warnings
                         THEN _add_diag(st.diagnostics, st.diag_seen,
                                        warnings[inventory_id])
                         ELSE [diagnostics |-> st.diagnostics, seen |-> st.diag_seen]
             IN  [inventory |->
                      IF use_amount > 0
                      THEN [st.inventory EXCEPT
                               ![inventory_id] =
                                   _decrement_bucket(buckets, req.type, use_amount)]
                      ELSE st.inventory,
                  usage |->
                      IF use_amount > 0
                      THEN AddUsage(st.usage, inventory_id, req.type, use_amount)
                      ELSE st.usage,
                  shortfalls |->
                      IF DeficitReported(deficit)
                      THEN Append(st.shortfalls,
                                  _build_shortfall(requirement, req.type, deficit,
                                                   "insufficient_stock", inventory_id))
                      ELSE st.shortfalls,
                  diagnostics |-> diag.diagnostics,
                  diag_seen |-> diag.seen]
        ELSE [st EXCEPT
                 !.shortfalls =
                     Append(@, _build_shortfall(requirement, req.type, req.amount,
                                                MissingReason, inventory_id))]

\* delta_models of _normalize_candidate
DeltaModels(use) ==
    [k \in 1..Len(use) |->
        InventoryDelta(use[k].ingredient_id, _maybe_value(use[k].use_g),
                       _maybe_value(use[k].use_ml), _maybe_value(use[k].use_count))]

(***************************************************************************)
(* agents/diff_validator.py: _recompute_macros and _macro_delta            *)
(***************************************************************************)
\* `if requirement.quantity_g:` is false for None and for 0
Truthy(q) == q # None /\ q # 0

RECURSIVE TotalOf(_, _)
TotalOf(reqs, field) ==
    IF Len(reqs) = 0 THEN 0
    ELSE (IF Truthy(Head(reqs)[field]) THEN Head(reqs)[field] ELSE 0)
         + TotalOf(Tail(reqs), field)

\* round(total_mass / servings * num / den, 1) in tenths, for total_mass in
\* millionths of a gram: the exact quotient total_mass * num / (den * 100000
\* * servings) rounded half to even, computed without leaving 32 bits
RoundedShare(total_mass, servings, num, den) ==
    LET d     == den * 100 * servings          \* divisor / 1000
        hi    == total_mass \div 1000
        lo    == total_mass % 1000
        q     == (num * hi) \div d
        r     == (num * hi) % d
        t     == 1000 * r + num * lo           \* remainder, over 1000 * d
        whole == q + (t \div (1000 * d))
        rest  == t % (1000 * d)
    IN  IF 2 * rest > 1000 * d THEN whole + 1
        ELSE IF 2 * rest = 1000 * d THEN whole + (whole % 2)
        ELSE whole

ESTIMATED_NOTE == "Estimated macros per serving from ingredient totals."
ADJUSTED_NOTE == "Adjusted macros per serving based on ingredient totals."

\* `getattr(existing, field) or 0.0`
OrZero(v) == IF v = None THEN 0 ELSE v

MacroFields == {"kcal", "protein_g", "carb_g", "fat_g"}

RECURSIVE SumOver(_, _)
SumOver(S, f) ==
    IF S = {} THEN 0
    ELSE LET x == CHOOSE y \in S : TRUE IN f[x] + SumOver(S \ {x}, f)

\* DiffValidator._macro_delta, as the pair numerator / denominator (tenths)
_macro_delta(existing, updated) ==
    LET counted == {f \in MacroFields :
                        ~(OrZero(existing[f]) = 0 /\ OrZero(updated[f]) = 0)}
        absdiff == [f \in MacroFields |->
                        IF OrZero(existing[f]) >= OrZero(updated[f])
                        THEN OrZero(existing[f]) - OrZero(updated[f])
                        ELSE OrZero(updated[f]) - OrZero(existing[f])]
        largest == [f \in MacroFields |->
                        Max(Max(OrZero(existing[f]), OrZero(updated[f])), 10)]
    IN  [numerator |-> SumOver(counted, absdiff),
         denominator |-> SumOver(counted, largest)]

\* delta > 0.2
MacrosDivergeAlways(delta) == TRUE

MacrosDiverge(delta) ==
    delta.denominator # 0 /\ 5 * delta.numerator > delta.denominator

EstimateMacrosOfBatch(total_mass, servings) ==
    Macros(RoundedShare(total_mass, 1, 44, 10),
           RoundedShare(total_mass, 1, 25, 100),
           RoundedShare(total_mass, 1, 67, 100),
           RoundedShare(total_mass, 1, 8, 100))

\* the heuristic estimate of _recompute_macros for a positive total mass
EstimateMacros(total_mass, servings) ==
    Macros(RoundedShare(total_mass, servings, 44, 10),     \* 4p + 4c + 9f = 4.4
           RoundedShare(total_mass, servings, 25, 100),
           RoundedShare(total_mass, servings, 67, 100),    \* 1 - 0.25 - 0.08
           RoundedShare(total_mass, servings, 8, 100))

\* DiffValidator._recompute_macros
_recompute_macros(candidate) ==
    LET reqs == candidate.ingredients_required
        total_weight == TotalOf(reqs, "quantity_g")
        total_volume == TotalOf(reqs, "quantity_ml")
        total_count  == TotalOf(reqs, "quantity_count")
        total_mass == total_weight + total_volume + total_count * _COUNT_TO_WEIGHT_G
        servings == Max(1, IF candidate.servings = None \/ candidate.servings = 0
                           THEN 1 ELSE candidate.servings)
        macros == EstimateMacros(total_mass, servings)
    IN  IF total_mass <= 0
        THEN [macros |-> candidate.macros_per_serving, notes |-> <<>>]
        ELSE IF candidate.macros_per_serving = NoMacros
        THEN [macros |-> macros, notes |-> <<ESTIMATED_NOTE>>]
        ELSE IF MacrosDiverge(_macro_delta(candidate.macros_per_serving, macros))
        THEN [macros |-> macros, notes |-> <<ADJUSTED_NOTE>>]
        ELSE [macros |-> candidate.macros_per_serving, notes |-> <<>>]

RECURSIVE AddDiags(_, _)
AddDiags(acc, notes) ==
    IF Len(notes) = 0 THEN acc
    ELSE AddDiags(_add_diag(acc.diagnostics, acc.seen, Head(notes)), Tail(notes))

\* The tail of _normalize_candidate: delta_models, the macros, model_copy
FinishCandidate(candidate, st) ==
    LET m == _recompute_macros(candidate)
        d == AddDiags([diagnostics |-> st.diagnostics, seen |-> st.diag_seen], m.notes)
    IN  [candidate EXCEPT
            !.inventory_deltas = DeltaModels(st.usage),
            !.shopping_shortfall = st.shortfalls,
            !.macros_per_serving = m.macros,
            !.diagnostics = d.diagnostics]

\* candidate_inventory of DiffValidator.run: a clone of every bucket
CandidateInventoryReused(state, previous) ==
    IF DOMAIN previous = DOMAIN state THEN previous
    ELSE [id \in DOMAIN state |-> clone(state[id])]

CandidateInventory(state, previous) ==
    [id \in DOMAIN state |-> clone(state[id])]

\* DiffValidator._normalize_candidate, as one value
RECURSIVE NormalizeFold(_, _, _, _)
NormalizeFold(st, reqs, index, warnings) ==
    IF Len(reqs) = 0 THEN st
    ELSE NormalizeFold(NormalizeStep(st, Head(reqs), index, warnings),
                       Tail(reqs), index, warnings)

_normalize_candidate(candidate, inventory, index, warnings) ==
    FinishCandidate(candidate,
        NormalizeFold([inventory |-> inventory,
                       usage |-> NewUsage(candidate),
                       shortfalls |-> NewShortfalls(candidate),
                       diagnostics |-> <<>>,
                       diag_seen |-> {}],
                      candidate.ingredients_required, index, warnings))

\* DiffValidator.run, as one value
run(ctx, p) ==
    LET built == _build_inventory_state(ctx.inventory)
        index == _build_name_index(ctx.inventory)
    IN  [date |-> p.date,
         candidates |->
            [k \in 1..Len(p.candidates) |->
                _normalize_candidate(p.candidates[k],
                                     CandidateInventory(built.state, <<>>),
                                     index, built.warnings)]]

(***************************************************************************)
(* Data shapes of models/context.py and models/plan.py                     *)
(***************************************************************************)
InventoryItem(id, name, quantity, unit, best_before) ==
    [id |-> id, name |-> name, quantity |-> quantity, unit |-> unit,
     best_before |-> best_before]

\* a diet of None is the empty string: the code reads it as `diet or ""`
Preferences(diet, max_time_min, allergens) ==
    [diet |-> diet, max_time_min |-> max_time_min, allergens |-> allergens]

PlanningContext(date, prefs, recent_meals, inventory, leftovers, attendees) ==
    [date |-> date, prefs |-> prefs, recent_meals |-> recent_meals,
     inventory |-> inventory, leftovers |-> leftovers,
     constraints |-> [attendees |-> attendees]]

PlanCandidate(title, minutes, servings, reqs, deltas, shorts, macros) ==
    [title |-> title, estimated_time_min |-> minutes, servings |-> servings,
     ingredients_required |-> reqs, inventory_deltas |-> deltas,
     shopping_shortfall |-> shorts, macros_per_serving |-> macros,
     diagnostics |-> <<>>]

Plan(date, cands) == [date |-> date, candidates |-> cands]

\* the day the model plans for (dates are day numbers)
Today == 100

(***************************************************************************)
(* planner/app/utils.py: the name indexes.  A dict is an insertion-ordered *)
(* list of <<key, item>> entries.                                          *)
(***************************************************************************)
HasKey(index, key) == \E k \in 1..Len(index) : index[k].key = key

KeyPos(index, key) == CHOOSE k \in 1..Len(index) : index[k].key = key

\* index[key] = item: a new key goes last, a known key keeps its place
SetKey(index, key, item) ==
    IF HasKey(index, key)
    THEN [index EXCEPT ![KeyPos(index, key)] = [key |-> key, item |-> item]]
    ELSE Append(index, [key |-> key, item |-> item])

RECURSIVE BuildIndexFold(_, _)
BuildIndexFold(acc, items) ==
    IF items = <<>> THEN acc
    ELSE BuildIndexFold(SetKey(acc, normalize_name(Head(items).name), Head(items)),
                        Tail(items))

build_inventory_index(inventory) == BuildIndexFold(<<>>, inventory)

build_leftover_index(leftovers) == BuildIndexFold(<<>>, leftovers)

\* no item: the None that the resolve functions return
NoItem == [none |-> TRUE]

resolve_inventory_item(normalized_name, index) ==
    IF HasKey(index, normalized_name)
    THEN index[KeyPos(index, normalized_name)].item
    ELSE LET loose == {k \in 1..Len(index) :
                          \/ Contains(index[k].key, normalized_name)
                          \/ Contains(normalized_name, index[k].key)}
         IN  IF loose = {} THEN NoItem
             ELSE index[CHOOSE k \in loose : \A j \in loose : k <= j].item

resolve_leftover_item(normalized_name, index) ==
    resolve_inventory_item(normalized_name, index)

(***************************************************************************)
(* planner/app/constraint_engine.py.  A catalog quantity is in whole       *)
(* grams, a date is a day number, a score is in 1e-4.  The details of a    *)
(* RuleResult are message texts and are left out.                          *)
(***************************************************************************)
RecipeIngredient(name, quantity_g, optional) ==
    [name |-> name, quantity_g |-> quantity_g, optional |-> optional]

Recipe(title, ingredients, tags, estimated_time_min, primary_ingredients, servings) ==
    [title |-> title, ingredients |-> ingredients, tags |-> tags,
     estimated_time_min |-> estimated_time_min,
     primary_ingredients |-> primary_ingredients, servings |-> servings]

RecentMeal(date, title) == [date |-> date, title |-> title]

LeftoverItem(name, quantity, unit, best_before) ==
    [name |-> name, quantity |-> quantity, unit |-> unit, best_before |-> best_before]

RuleResult(name, passed, score_adjustment) ==
    [name |-> name, passed |-> passed, score_adjustment |-> score_adjustment]

ConstraintEvaluation(recipe, score, rule_results) ==
    [recipe |-> recipe, score |-> score, rule_results |-> rule_results]

PlanningSnapshot(ctx) ==
    [context |-> ctx,
     inventory_index |-> build_inventory_index(ctx.inventory),
     leftovers_index |-> build_leftover_index(ctx.leftovers),
     current_date |-> ctx.date]

DietCompatibilityRule(recipe, snap) ==
    LET diet == lower(strip(snap.context.prefs.diet))
        recipe_tags == {normalize_name(tag) : tag \in recipe.tags}
    IN  IF diet = "" THEN RuleResult("diet_compatibility", TRUE, 0)
        ELSE IF diet \in recipe_tags \/ "flex" \in recipe_tags
             THEN RuleResult("diet_compatibility", TRUE, 5000)
             ELSE RuleResult("diet_compatibility", FALSE, 0)

AllergenExclusionRule(recipe, snap) ==
    LET allergens == {normalize_name(allergen) :
                         allergen \in Range(snap.context.prefs.allergens)}
    IN  IF allergens = {} THEN RuleResult("allergen_exclusion", TRUE, 0)
        ELSE IF \E k \in 1..Len(recipe.ingredients) : \E allergen \in allergens :
                    Contains(normalize_name(recipe.ingredients[k].name), allergen)
             THEN RuleResult("allergen_exclusion", FALSE, 0)
             ELSE RuleResult("allergen_exclusion", TRUE, 3000)

MaxTimeRule(recipe, snap) ==
    LET max_time == snap.context.prefs.max_time_min
    IN  IF max_time = None THEN RuleResult("time_limit", TRUE, 0)
        ELSE IF recipe.estimated_time_min <= max_time
             THEN RuleResult("time_limit", TRUE, 2000)
             ELSE RuleResult("time_limit", FALSE, 0)

\* sum of f[k] for k in 1..n
RECURSIVE SumTo(_, _)
SumTo(f, n) == IF n = 0 THEN 0 ELSE f[n] + SumTo(f, n - 1)

\* `value or 0.0` on an optional quantity
OrNothing(value) == IF value = None THEN 0 ELSE value

\* min(available / needed, 1.0) if available > 0 else 0.0, in 1e-4;
\* available is in hundredths and needed in whole grams
CoverageRatio(available, needed) ==
    IF available > 0 THEN Min((available * 100) \div needed, 10000) ELSE 0

InventoryCoverageRule(recipe, snap) ==
    LET n == Len(recipe.ingredients)
        primary_set == {normalize_name(name) : name \in Range(recipe.primary_ingredients)}
        normalized(k) == normalize_name(recipe.ingredients[k].name)
        match(k) == resolve_inventory_item(normalized(k), snap.inventory_index)
        needed(k) == recipe.ingredients[k].quantity_g
        missing == {k \in 1..n : match(k) = NoItem}
        covered == (1..n) \ missing
        coverage == [k \in 1..n |->
                        IF k \in missing THEN 0
                        ELSE IF needed(k) <= 0 THEN 10000
                        ELSE CoverageRatio(OrNothing(match(k).quantity), needed(k))]
        primary_hits == Cardinality({k \in covered :
                                        needed(k) > 0 /\ normalized(k) \in primary_set})
        average_coverage == IF covered = {} THEN 0
                            ELSE SumTo(coverage, n) \div Cardinality(covered)
    IN  IF n = 0 THEN RuleResult("inventory_coverage", TRUE, 0)
        ELSE IF covered = {} /\ missing # {}
             THEN RuleResult("inventory_coverage", TRUE, -10000)
             ELSE RuleResult("inventory_coverage", TRUE,
                             (15 * average_coverage) \div 10
                                 - 4000 * Cardinality(missing) + 6000 * primary_hits)

ExpiryBonus(days_remaining) ==
    IF days_remaining < 0 THEN 15000
    ELSE IF days_remaining <= 2 THEN 12000
    ELSE IF days_remaining <= 7 THEN 6000
    ELSE IF days_remaining <= 14 THEN 2000
    ELSE 0

BestBeforePriorityRule(recipe, snap) ==
    LET n == Len(recipe.ingredients)
        match(k) == resolve_inventory_item(normalize_name(recipe.ingredients[k].name),
                                           snap.inventory_index)
        bonus == [k \in 1..n |->
                     IF match(k) = NoItem THEN 0
                     ELSE IF match(k).best_before = None THEN 0
                     ELSE ExpiryBonus(match(k).best_before - snap.current_date)]
    IN  RuleResult("expiry_priority", TRUE, SumTo(bonus, n))

LeftoverUtilizationRule(recipe, snap) ==
    LET n == Len(recipe.ingredients)
        used_leftovers ==
            {k \in 1..n :
                resolve_leftover_item(normalize_name(recipe.ingredients[k].name),
                                      snap.leftovers_index) # NoItem}
    IN  IF snap.context.leftovers = <<>>
        THEN RuleResult("leftover_utilization", TRUE, 0)
        ELSE IF used_leftovers = {}
             THEN RuleResult("leftover_utilization", TRUE, -1000)
             ELSE RuleResult("leftover_utilization", TRUE,
                             8000 * Cardinality(used_leftovers))

RecencyPenaltyRule(recipe, snap) ==
    LET meals == snap.context.recent_meals
        recipe_name == normalize_name(recipe.title)
        served == {k \in 1..Len(meals) : normalize_name(meals[k].title) = recipe_name}
    IN  IF meals = <<>> THEN RuleResult("recency_penalty", TRUE, 0)
        ELSE IF served = {} THEN RuleResult("recency_penalty", TRUE, 3000)
        ELSE LET meal == meals[CHOOSE k \in served : \A j \in served : j <= k]
                 days_since == snap.current_date - meal.date
                 penalty == Max(15000 - 2000 * Max(days_since, 0), 3000)
             IN  RuleResult("recency_penalty", TRUE, -penalty)

AttendeeScalingRule(recipe, snap) ==
    LET attendees == snap.context.constraints.attendees
    IN  IF attendees = None \/ attendees = 0 \/ recipe.servings <= 0
        THEN RuleResult("attendee_scaling", TRUE, 0)
        ELSE IF recipe.servings <= 2 * attendees /\ attendees <= 2 * recipe.servings
             THEN RuleResult("attendee_scaling", TRUE, 4000)
             ELSE RuleResult("attendee_scaling", TRUE, -2000)

\* _build_constraint_engine: the rules in their fixed order
HardRules(recipe, snap) ==
    <<DietCompatibilityRule(recipe, snap),
      AllergenExclusionRule(recipe, snap),
      MaxTimeRule(recipe, snap)>>

SoftRules(recipe, snap) ==
    <<InventoryCoverageRule(recipe, snap),
      BestBeforePriorityRule(recipe, snap),
      LeftoverUtilizationRule(recipe, snap),
      RecencyPenaltyRule(recipe, snap),
      AttendeeScalingRule(recipe, snap)>>

\* no evaluation: the None of evaluate_recipe
NoEvaluation == [none |-> TRUE]

RejectsNever(result) == FALSE

\* evaluate_recipe, line 303: `if not result.passed: return None`
Rejects(result) == ~result.passed

evaluate_recipe(recipe, snap) ==
    LET hard == HardRules(recipe, snap)
        soft == SoftRules(recipe, snap)
        failed == {k \in 1..Len(hard) : Rejects(hard[k])}
        score == SumTo([k \in 1..Len(soft) |-> soft[k].score_adjustment], Len(soft))
    IN  IF failed # {} THEN NoEvaluation
        ELSE ConstraintEvaluation(recipe, score, hard \o soft)

SortsBeforeTies(kept, added) == kept.score > added.score

\* list.sort(key=score, reverse=True) is stable: an element stays ahead of
\* every later element whose score is not greater than its own
SortsBefore(kept, added) == kept.score >= added.score

\* insert one evaluation behind the sorted ones that stay ahead of it
InsertSorted(sorted, evaluation) ==
    LET ahead == {k \in 1..Len(sorted) : SortsBefore(sorted[k], evaluation)}
        at == Cardinality(ahead)
    IN  SubSeq(sorted, 1, at) \o <<evaluation>> \o SubSeq(sorted, at + 1, Len(sorted))

RECURSIVE SortFold(_, _)
SortFold(sorted, rest) ==
    IF rest = <<>> THEN sorted
    ELSE SortFold(InsertSorted(sorted, Head(rest)), Tail(rest))

\* evaluations.sort(key=lambda evaluation: evaluation.score, reverse=True)
SortDescending(evals) == SortFold(<<>>, evals)

RECURSIVE EvaluateFold(_, _, _)
EvaluateFold(acc, recipes, snap) ==
    IF recipes = <<>> THEN acc
    ELSE LET evaluation == evaluate_recipe(Head(recipes), snap)
         IN  EvaluateFold(IF evaluation = NoEvaluation THEN acc
                          ELSE Append(acc, evaluation),
                          Tail(recipes), snap)

rank_recipes(ctx, recipes) ==
    SortDescending(EvaluateFold(<<>>, recipes, PlanningSnapshot(ctx)))

(***************************************************************************)
(* planner/app/planner.py: the catalog, the candidate builder and the      *)
(* rule-based generator.  The steps of a recipe are texts that nothing     *)
(* reads and are left out.                                                 *)
(***************************************************************************)
RECIPES ==
    <<Recipe("Lemon Herb Chicken with Roasted Vegetables",
             <<RecipeIngredient("chicken thigh, boneless", 450, FALSE),
               RecipeIngredient("lemon", 80, TRUE),
               RecipeIngredient("broccoli", 300, FALSE),
               RecipeIngredient("olive oil", 30, FALSE),
               RecipeIngredient("garlic", 12, FALSE)>>,
             {"omnivore", "gluten-free"}, 40, <<"chicken", "broccoli">>, 4),
      Recipe("Chickpea Coconut Curry",
             <<RecipeIngredient("canned chickpeas", 400, FALSE),
               RecipeIngredient("coconut milk", 350, FALSE),
               RecipeIngredient("spinach", 150, FALSE),
               RecipeIngredient("onion", 120, FALSE),
               RecipeIngredient("garlic", 10, FALSE)>>,
             {"vegan", "vegetarian", "gluten-free"}, 30, <<"canned chickpeas">>, 4),
      Recipe("Seared Salmon with Citrus Salad",
             <<RecipeIngredient("salmon fillet", 500, FALSE),
               RecipeIngredient("mixed greens", 150, FALSE),
               RecipeIngredient("orange", 160, FALSE),
               RecipeIngredient("olive oil", 20, FALSE),
               RecipeIngredient("almonds", 40, TRUE)>>,
             {"pescatarian", "low-carb"}, 25, <<"salmon", "greens">>, 4),
      Recipe("Vegetable Stir-Fry with Tofu",
             <<RecipeIngredient("tofu", 400, FALSE),
               RecipeIngredient("bell pepper", 150, FALSE),
               RecipeIngredient("carrot", 120, FALSE),
               RecipeIngredient("soy sauce", 40, FALSE),
               RecipeIngredient("garlic", 10, FALSE)>>,
             {"vegan", "vegetarian"}, 20, <<"tofu">>, 4),
      Recipe("Hearty Lentil Soup",
             <<RecipeIngredient("dry lentils", 300, FALSE),
               RecipeIngredient("celery", 80, FALSE),
               RecipeIngredient("carrot", 120, FALSE),
               RecipeIngredient("onion", 120, FALSE),
               RecipeIngredient("vegetable broth", 600, FALSE)>>,
             {"vegan", "vegetarian", "gluten-free"}, 45, <<"lentils">>, 4)>>

\* whole grams as a plan amount (millionths)
Grams(quantity_g) == quantity_g * 1000000

\* an inventory quantity (hundredths) read as grams, as a plan amount
RawAsGrams(quantity) == quantity * 10000

ReportsMissingAlways(ingredient) == TRUE

\* _build_candidate, line 626: `if not ingredient.optional`
ReportsMissing(ingredient) == ~ingredient.optional

\* _build_candidate, one iteration of the loop over recipe.ingredients;
\* acc is [requirements, deltas, shortfalls]
BuildStep(acc, ingredient, inventory_lookup) ==
    LET normalized == normalize_name(ingredient.name)
        matched_item == resolve_inventory_item(normalized, inventory_lookup)
        quantity_needed == Grams(ingredient.quantity_g)
    IN  IF matched_item # NoItem
        THEN LET available == RawAsGrams(matched_item.quantity)
                 use_amount == Min(available, quantity_needed)
                 shortfall_amount == Max(quantity_needed - available, 0)
             IN  [requirements |->
                      Append(acc.requirements,
                             IngredientRequirement(matched_item.id, matched_item.name,
                                                   quantity_needed, None, None)),
                  deltas |->
                      IF use_amount > 0
                      THEN Append(acc.deltas,
                                  InventoryDelta(matched_item.id, use_amount, None, None))
                      ELSE acc.deltas,
                  shortfalls |->
                      IF shortfall_amount > 10000
                      THEN Append(acc.shortfalls,
                                  ShoppingShortfall(matched_item.id, matched_item.name,
                                                    shortfall_amount, None, None,
                                                    "insufficient_stock"))
                      ELSE acc.shortfalls]
        ELSE [requirements |->
                  Append(acc.requirements,
                         IngredientRequirement(None, ingredient.name, quantity_needed,
                                               None, None)),
              deltas |-> acc.deltas,
              shortfalls |->
                  IF ReportsMissing(ingredient)
                  THEN Append(acc.shortfalls,
                              ShoppingShortfall(None, ingredient.name, quantity_needed,
                                                None, None, "not_in_inventory"))
                  ELSE acc.shortfalls]

RECURSIVE BuildFold(_, _, _)
BuildFold(acc, ingredients, inventory_lookup) ==
    IF ingredients = <<>> THEN acc
    ELSE BuildFold(BuildStep(acc, Head(ingredients), inventory_lookup),
                   Tail(ingredients), inventory_lookup)

_build_candidate(recipe, ctx, inventory_lookup) ==
    LET attendees == ctx.constraints.attendees
        servings == IF attendees = None \/ attendees = 0 THEN recipe.servings
                    ELSE attendees
        built == BuildFold([requirements |-> <<>>, deltas |-> <<>>, shortfalls |-> <<>>],
                           recipe.ingredients, inventory_lookup)
    IN  PlanCandidate(recipe.title, recipe.estimated_time_min, servings,
                      built.requirements, built.deltas, built.shortfalls, NoMacros)

_fallback_candidate(ctx) ==
    LET max_time == ctx.prefs.max_time_min
        attendees == ctx.constraints.attendees
    IN  PlanCandidate("Pantry Pasta",
                      IF max_time = None \/ max_time = 0 THEN 25 ELSE max_time,
                      IF attendees = None \/ attendees = 0 THEN 2 ELSE attendees,
                      <<IngredientRequirement(None, "pasta", Grams(300), None, None),
                        IngredientRequirement(None, "canned tomatoes", Grams(400), None,
                                              None)>>,
                      <<>>,
                      <<ShoppingShortfall(None, "pasta", Grams(300), None, None,
                                          "not_in_inventory"),
                        ShoppingShortfall(None, "canned tomatoes", Grams(400), None, None,
                                          "not_in_inventory")>>,
                      NoMacros)

TopAll(evals) == evals

\* _generate_rule_based_plan, line 681: evaluations[:3]
Top(evals) == SubSeq(evals, 1, Min(3, Len(evals)))

BuildCandidatesOf(evals, ctx) ==
    LET inventory_lookup == build_inventory_index(ctx.inventory)
        top == Top(evals)
    IN  [k \in 1..Len(top) |-> _build_candidate(top[k].recipe, ctx, inventory_lookup)]

\* _generate_rule_based_plan, lines 684-688: the candidate added to an empty list
FallbackOf(ctx) ==
    IF ctx.inventory # <<>>
    THEN _build_candidate(RECIPES[1], ctx, build_inventory_index(ctx.inventory))
    ELSE _fallback_candidate(ctx)

_generate_rule_based_plan(ctx) ==
    LET built == BuildCandidatesOf(rank_recipes(ctx, RECIPES), ctx)
    IN  Plan(ctx.date, IF built = <<>> THEN <<FallbackOf(ctx)>> ELSE built)

(***************************************************************************)
(* Inputs of DiffValidator.run                                             *)
(***************************************************************************)
MaxItems == 2
MaxRequirements == 2
MaxCandidates == 2

\* sequences over S of length at most n
SeqsUpTo(S, n) == UNION {[1..k -> S] : k \in 0..n}

RcItems ==
    <<InventoryItem(1, "Chicken Thigh", 50000, "g", None),
      InventoryItem(2, "Vegetable Broth", 100, "l", None),
      InventoryItem(4, "Basil", 200, " Bunch", None),
      InventoryItem(5, "Eggs", 0, "each", None),
      InventoryItem(6, "Onion", 300, "Each", None),
      InventoryItem(7, "Salt", 100, "", None),
      InventoryItem(10, "Ground Beef", 200, "lb", None)>>

\* the sub-lists of RcItems of at most MaxItems items; the onion and the
\* salt, which no requirement asks for, are only stocked alone
RcInventories ==
    {inv \in SeqsUpTo(Range(RcItems), MaxItems) :
        /\ \A i, j \in 1..Len(inv) : i < j => inv[i].id < inv[j].id
        /\ (\E i \in 1..Len(inv) : inv[i].id \in {6, 7}) => Len(inv) = 1}

RcRequirements ==
    {IngredientRequirement(1, "Chicken Thigh", 600000000, None, None),
     IngredientRequirement(1, "Chicken Thigh", 500000001, None, None),
     IngredientRequirement(None, " chicken  THIGH", 500000000, None, None),
     IngredientRequirement(None, "Vegetable Broth", None, 250000000, None),
     IngredientRequirement(2, "Vegetable Broth", 0, 250000000, None),
     IngredientRequirement(None, "Lemon", None, None, 2000000),
     IngredientRequirement(4, "Basil", None, None, 1000000),
     IngredientRequirement(5, "Eggs", None, None, 2000000),
     IngredientRequirement(10, "Ground Beef", 600000000, None, None),
     IngredientRequirement(99, "Chicken Thigh", 100000000, None, None),
     IngredientRequirement(4, "Basil", 10000000, None, None),
     IngredientRequirement(None, "Salt", 1000000, None, None)}

\* the requirements that longer lists are made of: three ways to ask for the
\* chicken, one item in another domain, one that is not in stock
RcCoreRequirements ==
    {r \in RcRequirements :
        (_normalize_name(r.name) \in {"chicken thigh", "lemon"} /\ r.ingredient_id # 99)
        \/ (r.name = "Vegetable Broth" /\ r.ingredient_id = None)}

RcRequirementLists ==
    SeqsUpTo(RcRequirements, 1) \cup SeqsUpTo(RcCoreRequirements, MaxRequirements)

\* servings and macros_per_serving a generator may have put on a candidate
RcDefaultVariant == [servings |-> 2, macros |-> NoMacros]

RcVariants ==
    {RcDefaultVariant,
     [servings |-> None, macros |-> NoMacros],
     [servings |-> 2, macros |-> Macros(13000, 750, 2000, 250)],
     [servings |-> 2, macros |-> Macros(5000, None, 100, 0)],
     [servings |-> 2, macros |-> Macros(22, None, 11, 0)]}

RcCandidates ==
    {PlanCandidate("Braised Chicken", 40, v.servings, reqs, <<>>, <<>>, v.macros) :
        reqs \in RcRequirementLists, v \in {RcDefaultVariant}}
    \cup
    {PlanCandidate("Braised Chicken", 40, v.servings, reqs, <<>>, <<>>, v.macros) :
        reqs \in SeqsUpTo(RcRequirements, 1), v \in RcVariants}

\* a second option of the same plan, competing for the chicken; its generator
\* claimed more chicken than there is
RcCompetitors ==
    {PlanCandidate("Chicken Soup", 30, 2, <<r>>,
                   <<InventoryDelta(1, 900000000, None, None)>>, <<>>, NoMacros) :
        r \in {IngredientRequirement(None, " chicken  THIGH", 500000000, None, None),
               IngredientRequirement(1, "Chicken Thigh", 600000000, None, None)}}

RcPlans ==
    {Plan(Today, cs) :
        cs \in {<<>>} \cup
               {<<c>> \o rest : c \in RcCandidates,
                                rest \in SeqsUpTo(RcCompetitors, MaxCandidates - 1)}}

(***************************************************************************)
(* DiffValidator.run((context, plan)), one step per loop iteration,        *)
(* followed by a second run on its own result                              *)
(***************************************************************************)
\* rank_recipes is not running
RankIdle ==
    /\ catalog = <<>>
    /\ snapshot = <<>>
    /\ evaluations = <<>>
    /\ recipe_i = 0
    /\ ranked1 = <<>>
    /\ ranked2 = <<>>

\* generate_plan is not running
PlanIdle ==
    /\ settings = <<>>
    /\ llm_plan = <<>>
    /\ candidates = <<>>
    /\ returned = <<>>

Working ==
    [inventory |-> candidate_inventory, usage |-> usage, shortfalls |-> shortfalls,
     diagnostics |-> diagnostics, diag_seen |-> diag_seen]

InitReconcile ==
    /\ context \in {PlanningContext(Today, Preferences("", None, <<>>), <<>>, inv,
                                    <<>>, None) : inv \in RcInventories}
    /\ plan \in RcPlans
    /\ pc = "run"
    /\ inventory_state = <<>>
    /\ unit_warnings = <<>>
    /\ name_index = <<>>
    /\ candidate_inventory = <<>>
    /\ usage = <<>>
    /\ shortfalls = <<>>
    /\ diagnostics = <<>>
    /\ diag_seen = {}
    /\ ci = 0
    /\ ri = 0
    /\ normalized_candidates = <<>>
    /\ result1 = Plan(Today, <<>>)
    /\ result2 = Plan(Today, <<>>)
    /\ RankIdle
    /\ PlanIdle
    /\ OcrIdle

\* run: lines 98-101
RunBegin ==
    /\ pc = "run"
    /\ LET built == _build_inventory_state(context.inventory)
       IN  /\ inventory_state' = built.state
           /\ unit_warnings' = built.warnings
    /\ name_index' = _build_name_index(context.inventory)
    /\ normalized_candidates' = <<>>
    /\ ci' = 1
    /\ pc' = "loop"
    /\ UNCHANGED <<context, plan, candidate_inventory, usage, shortfalls, diagnostics,
                   diag_seen, ri, result1, result2>>
    /\ UNCHANGED <<rank_vars, plan_vars, ocr_vars>>

\* run: lines 103-106, and _normalize_candidate up to its loop
CandidateBegin ==
    /\ pc = "loop"
    /\ ci <= Len(plan.candidates)
    /\ candidate_inventory' = CandidateInventory(inventory_state, candidate_inventory)
    /\ usage' = NewUsage(plan.candidates[ci])
    /\ shortfalls' = NewShortfalls(plan.candidates[ci])
    /\ diagnostics' = <<>>
    /\ diag_seen' = {}
    /\ ri' = 1
    /\ pc' = "requirements"
    /\ UNCHANGED <<context, plan, inventory_state, unit_warnings, name_index, ci,
                   normalized_candidates, result1, result2>>
    /\ UNCHANGED <<rank_vars, plan_vars, ocr_vars>>

\* _normalize_candidate: one iteration of the loop over ingredients_required
Requirement ==
    /\ pc = "requirements"
    /\ ri <= Len(plan.candidates[ci].ingredients_required)
    /\ LET st == NormalizeStep(Working, plan.candidates[ci].ingredients_required[ri],
                               name_index, unit_warnings)
       IN  /\ candidate_inventory' = st.inventory
           /\ usage' = st.usage
           /\ shortfalls' = st.shortfalls
           /\ diagnostics' = st.diagnostics
           /\ diag_seen' = st.diag_seen
    /\ ri' = ri + 1
    /\ UNCHANGED <<context, plan, pc, inventory_state, unit_warnings, name_index, ci,
                   normalized_candidates, result1, result2>>
    /\ UNCHANGED <<rank_vars, plan_vars, ocr_vars>>

\* _normalize_candidate after its loop, and run's append
CandidateEnd ==
    /\ pc = "requirements"
    /\ ri > Len(plan.candidates[ci].ingredients_required)
    /\ normalized_candidates' =
           Append(normalized_candidates, FinishCandidate(plan.candidates[ci], Working))
    /\ ci' = ci + 1
    /\ pc' = "loop"
    /\ UNCHANGED <<context, plan, inventory_state, unit_warnings, name_index,
                   candidate_inventory, usage, shortfalls, diagnostics, diag_seen, ri,
                   result1, result2>>
    /\ UNCHANGED <<rank_vars, plan_vars, ocr_vars>>

\* run: line 113
RunReturn ==
    /\ pc = "loop"
    /\ ci > Len(plan.candidates)
    /\ result1' = Plan(plan.date, normalized_candidates)
    /\ pc' = "returned"
    /\ UNCHANGED <<context, plan, inventory_state, unit_warnings, name_index,
                   candidate_inventory, usage, shortfalls, diagnostics, diag_seen, ci, ri,
                   normalized_candidates, result2>>
    /\ UNCHANGED <<rank_vars, plan_vars, ocr_vars>>

\* a second call, run((context, result1))
RunAgain ==
    /\ pc = "returned"
    /\ result2' = run(context, result1)
    /\ pc' = "done"
    /\ UNCHANGED <<context, plan, inventory_state, unit_warnings, name_index,
                   candidate_inventory, usage, shortfalls, diagnostics, diag_seen, ci, ri,
                   normalized_candidates, result1>>
    /\ UNCHANGED <<rank_vars, plan_vars, ocr_vars>>

NextReconcile ==
    \/ RunBegin
    \/ CandidateBegin
    \/ Requirement
    \/ CandidateEnd
    \/ RunReturn
    \/ RunAgain

SpecReconcile == InitReconcile /\ [][NextReconcile]_vars

(***************************************************************************)
(* Claims about DiffValidator.run                                          *)
(***************************************************************************)
\* the stock of the context as converted by _build_inventory_state
Stock == _build_inventory_state(context.inventory).state

NonNegative(buckets) ==
    buckets.weight_g >= 0 /\ buckets.volume_ml >= 0 /\ buckets.count >= 0

WithinStock(d) ==
    /\ d.ingredient_id \in DOMAIN Stock
    /\ OrZero(d.use_g) <= Stock[d.ingredient_id].weight_g
    /\ OrZero(d.use_ml) <= Stock[d.ingredient_id].volume_ml
    /\ OrZero(d.use_count) <= Stock[d.ingredient_id].count

\* C1: no overdraft.  In every reconciled candidate, and after every prefix
\* of the requirement list of the candidate being reconciled, the amount
\* used of an inventory id is at most the stock of that id converted into
\* the same domain, and no bucket of the working copy is negative.
C1_NoOverdraft ==
    /\ pc = "requirements" =>
          /\ \A id \in DOMAIN candidate_inventory : NonNegative(candidate_inventory[id])
          /\ \A k \in 1..Len(usage) : WithinStock(usage[k])
    /\ \A c \in 1..Len(normalized_candidates) :
          \A k \in 1..Len(normalized_candidates[c].inventory_deltas) :
              WithinStock(normalized_candidates[c].inventory_deltas[k])
    /\ \A c \in 1..Len(result1.candidates) :
          \A k \in 1..Len(result1.candidates[c].inventory_deltas) :
              WithinStock(result1.candidates[c].inventory_deltas[k])

\* two requirements drew on the chicken and together took all of it, the
\* second one clamped to what the first had left
C1_Witness ==
    /\ pc = "requirements"
    /\ 1 \in DOMAIN Stock
    /\ ri = 3
    /\ \E k \in 1..Len(usage) :
          /\ usage[k].ingredient_id = 1
          /\ usage[k].use_g = Stock[1].weight_g
    /\ candidate_inventory[1].weight_g = 0
    /\ Len(shortfalls) = 2

SameOutcome(a, b) ==
    /\ a.inventory_deltas = b.inventory_deltas
    /\ a.shopping_shortfall = b.shopping_shortfall
    /\ a.macros_per_serving = b.macros_per_serving

\* C4: idempotence.  Reconciling the result of a reconciliation gives,
\* candidate by candidate, the same deltas, shortfalls and macros.
C4_Idempotent ==
    pc = "done" =>
        /\ Len(result2.candidates) = Len(result1.candidates)
        /\ \A k \in 1..Len(result1.candidates) :
              SameOutcome(result2.candidates[k], result1.candidates[k])

\* the first run estimated the macros of one candidate and replaced those of
\* another, and clamped a usage
C4_Witness ==
    /\ pc = "done"
    /\ \E k \in 1..Len(result1.candidates) :
          /\ ESTIMATED_NOTE \in Range(result1.candidates[k].diagnostics)
          /\ result1.candidates[k].shopping_shortfall # <<>>
          /\ result1.candidates[k].inventory_deltas # <<>>
    /\ \E k \in 1..Len(result1.candidates) :
          /\ ADJUSTED_NOTE \in Range(result1.candidates[k].diagnostics)
          /\ result2.candidates[k].macros_per_serving
                # plan.candidates[k].macros_per_serving

\* what run returns for a plan made of the k-th candidate alone
Alone(k) == run(context, Plan(plan.date, <<plan.candidates[k]>>)).candidates[1]

\* C5: candidates are independent.  Each reconciled candidate is what it
\* would be as the only candidate of the plan, and the shared converted
\* inventory is still the one built from the context.
C5_Independent ==
    /\ \A k \in 1..Len(normalized_candidates) : normalized_candidates[k] = Alone(k)
    /\ pc \in {"loop", "requirements", "returned", "done"} => inventory_state = Stock

\* scenario D: two candidates each asked for all of the chicken (or more), and
\* both show all of it used
C5_Witness ==
    /\ pc = "returned"
    /\ 1 \in DOMAIN Stock
    /\ Len(result1.candidates) = 2
    /\ \A k \in 1..2 :
          /\ result1.candidates[k].inventory_deltas
                = <<InventoryDelta(1, Stock[1].weight_g, None, None)>>
    /\ \E k \in 1..2 : result1.candidates[k].shopping_shortfall = <<>>

\* the amount of inventory id `id` that the usage list u holds in domain t
UsedOf(u, id, t) ==
    IF \E k \in 1..Len(u) : u[k].ingredient_id = id
    THEN LET e == u[CHOOSE k \in 1..Len(u) : u[k].ingredient_id = id]
         IN  IF t = "g" THEN e.use_g ELSE IF t = "ml" THEN e.use_ml ELSE e.use_count
    ELSE 0

NeedOf(short, t) ==
    IF t = "g" THEN short.need_g ELSE IF t = "ml" THEN short.need_ml
    ELSE short.need_count

C6_Step ==
    (pc = "requirements" /\ pc' = "requirements" /\ ri' = ri + 1) =>
        LET requirement == plan.candidates[ci].ingredients_required[ri]
            req   == _extract_requirement_amount(requirement)
            id    == _resolve_inventory_id(requirement, name_index)
        IN  (req.amount > 0 /\ id # None /\ id \in DOMAIN Stock) =>
                LET remaining == _available_for_type(candidate_inventory[id], req.type)
                    used      == UsedOf(usage', id, req.type) - UsedOf(usage, id, req.type)
                    residual  == req.amount - used
                    added     == SubSeq(shortfalls', Len(shortfalls) + 1, Len(shortfalls'))
                IN  /\ used = Min(req.amount, remaining)
                    /\ residual >= 0
                    /\ SubSeq(shortfalls', 1, Len(shortfalls)) = shortfalls
                    /\ Len(added) = (IF residual > Epsilon THEN 1 ELSE 0)
                    /\ \A k \in 1..Len(added) :
                          /\ NeedOf(added[k], req.type) = Max(req.amount - used, 0)
                          /\ NeedOf(added[k], req.type) > 0
                          /\ added[k].ingredient_id = id

\* C6: for every requirement of positive amount that resolves to an item of
\* the converted inventory (the branch of line 172), the amount used is
\* min(requested, remaining stock of that domain), the residual requested -
\* used is not negative, and exactly when the residual is above 1e-6 one
\* shortfall record is added, carrying the residual.
C6_ShortfallIsResidual == [][C6_Step]_vars

\* a requirement that left a residual of exactly 1e-6 added no record, and
\* the next one, finding the chicken used up, added one for its full amount
C6_Witness ==
    /\ pc = "requirements"
    /\ ri = 3
    /\ plan.candidates[ci].ingredients_required[1].quantity_g = 500000001
    /\ UsedOf(usage, 1, "g") = 500000000
    /\ Len(shortfalls) = 1
    /\ shortfalls[1].need_g = 600000000
    /\ shortfalls[1].reason = "insufficient_stock"

(***************************************************************************)
(* ConstraintEngine.rank_recipes(context, catalog), one step per recipe,   *)
(* followed by a second, identical call                                    *)
(***************************************************************************)
MaxRecipes == 3

RkItems ==
    <<InventoryItem(1, "Tofu", 20000, "g", Today + 1),
      InventoryItem(2, "Garlic", 5000, "g", None),
      InventoryItem(3, "Chicken Breast", 40000, "g", Today - 1)>>

RkInventories ==
    {inv \in SeqsUpTo(Range(RkItems), MaxItems) :
        \A i, j \in 1..Len(inv) : i < j => inv[i].id < inv[j].id}

RkRecipes ==
    {Recipe("Tofu Bowl",
            <<RecipeIngredient("tofu", 400, FALSE), RecipeIngredient("garlic", 10, FALSE)>>,
            {"Vegan"}, 20, <<"tofu">>, 2),
     Recipe("Tofu Wrap",
            <<RecipeIngredient("tofu", 400, FALSE), RecipeIngredient("garlic", 10, FALSE)>>,
            {"vegan", "vegetarian"}, 35, <<"Tofu">>, 2),
     Recipe("Garlic Chicken",
            <<RecipeIngredient("chicken", 400, FALSE),
              RecipeIngredient("garlic", 10, FALSE)>>,
            {"omnivore", "flexible"}, 40, <<"chicken">>, 4),
     Recipe("Water", <<>>, {"flex"}, 5, <<>>, 1),
     Recipe("Slow Roast", <<RecipeIngredient("beef", 900, FALSE)>>,
            {"omnivore"}, 300, <<"beef">>, 4),
     Recipe("Garlic Infusion", <<RecipeIngredient("garlic", 0, FALSE)>>,
            {"vegan"}, 10, <<"garlic">>, 1)}

\* catalogs of distinct recipes, in every order
RkCatalogs ==
    {c \in SeqsUpTo(RkRecipes, MaxRecipes) :
        /\ \A i, j \in 1..Len(c) : i < j => c[i] # c[j]
        /\ (\E i \in 1..Len(c) : c[i].title \in {"Slow Roast", "Garlic Infusion"})
               => Len(c) = 1}

\* a household whose one leftover is named after two ingredients and that
\* had the tofu bowl twice, listed most recent first as list_recent_meals
\* does; and one whose allergen list holds a blank entry
RkOtherContexts ==
    {PlanningContext(Today, Preferences("", None, <<>>),
                     <<RecentMeal(Today - 1, "Tofu Bowl"), RecentMeal(Today - 6, "tofu bowl")>>,
                     inv, <<LeftoverItem("Garlic Tofu", 100, "g", None)>>, None) :
        inv \in {<<>>, <<RkItems[1]>>}}
    \cup
    {PlanningContext(Today, Preferences("", None, <<" ">>), <<>>, <<RkItems[1]>>,
                     <<>>, None)}

RkBaseContexts ==
    {PlanningContext(Today, Preferences(diet, max_time, allergens), sit.recent_meals,
                     inv, sit.leftovers, sit.attendees) :
        diet \in {"", " Vegan"}, max_time \in {None, 30},
        allergens \in {<<>>, <<"CHICKEN">>}, inv \in RkInventories,
        sit \in {[recent_meals |-> <<>>, leftovers |-> <<>>, attendees |-> None],
                 [recent_meals |-> <<RecentMeal(Today - 2, "tofu  bowl")>>,
                  leftovers |-> <<LeftoverItem("Garlic", 100, "clove", None)>>,
                  attendees |-> 2]}}

RkContexts == RkBaseContexts \cup RkOtherContexts

\* DiffValidator.run is not running
ReconcileIdle ==
    /\ plan = Plan(Today, <<>>)
    /\ inventory_state = <<>>
    /\ unit_warnings = <<>>
    /\ name_index = <<>>
    /\ candidate_inventory = <<>>
    /\ usage = <<>>
    /\ shortfalls = <<>>
    /\ diagnostics = <<>>
    /\ diag_seen = {}
    /\ ci = 0
    /\ ri = 0
    /\ normalized_candidates = <<>>
    /\ result1 = Plan(Today, <<>>)
    /\ result2 = Plan(Today, <<>>)

reconcile_vars ==
    <<plan, inventory_state, unit_warnings, name_index, candidate_inventory, usage,
      shortfalls, diagnostics, diag_seen, ci, ri, normalized_candidates, result1, result2>>

InitRank ==
    /\ context \in RkContexts
    /\ catalog \in RkCatalogs
    /\ pc = "rank"
    /\ snapshot = <<>>
    /\ evaluations = <<>>
    /\ recipe_i = 0
    /\ ranked1 = <<>>
    /\ ranked2 = <<>>
    /\ ReconcileIdle
    /\ PlanIdle
    /\ OcrIdle

\* rank_recipes: lines 320-327
RankBegin ==
    /\ pc = "rank"
    /\ snapshot' = PlanningSnapshot(context)
    /\ evaluations' = <<>>
    /\ recipe_i' = 1
    /\ pc' = "evaluate"
    /\ UNCHANGED <<context, catalog, ranked1, ranked2, reconcile_vars, plan_vars, ocr_vars>>

\* rank_recipes: lines 328-331, evaluate_recipe returned None
RecipeExcluded ==
    /\ pc = "evaluate"
    /\ recipe_i <= Len(catalog)
    /\ evaluate_recipe(catalog[recipe_i], snapshot) = NoEvaluation
    /\ recipe_i' = recipe_i + 1
    /\ UNCHANGED <<context, catalog, pc, snapshot, evaluations, ranked1, ranked2,
                   reconcile_vars, plan_vars, ocr_vars>>

\* rank_recipes: lines 328-331, evaluate_recipe returned an evaluation
RecipeEvaluated ==
    /\ pc = "evaluate"
    /\ recipe_i <= Len(catalog)
    /\ evaluate_recipe(catalog[recipe_i], snapshot) # NoEvaluation
    /\ evaluations' = Append(evaluations, evaluate_recipe(catalog[recipe_i], snapshot))
    /\ recipe_i' = recipe_i + 1
    /\ UNCHANGED <<context, catalog, pc, snapshot, ranked1, ranked2, reconcile_vars,
                   plan_vars, ocr_vars>>

\* rank_recipes: lines 333-334
RankReturn ==
    /\ pc = "evaluate"
    /\ recipe_i > Len(catalog)
    /\ evaluations' = SortDescending(evaluations)
    /\ ranked1' = SortDescending(evaluations)
    /\ pc' = "ranked"
    /\ UNCHANGED <<context, catalog, snapshot, recipe_i, ranked2, reconcile_vars,
                   plan_vars, ocr_vars>>

\* a second call, rank_recipes(context, catalog)
RankAgain ==
    /\ pc = "ranked"
    /\ ranked2' = rank_recipes(context, catalog)
    /\ pc' = "ranked_twice"
    /\ UNCHANGED <<context, catalog, snapshot, evaluations, recipe_i, ranked1,
                   reconcile_vars, plan_vars, ocr_vars>>

NextRank ==
    \/ RankBegin
    \/ RecipeExcluded
    \/ RecipeEvaluated
    \/ RankReturn
    \/ RankAgain

SpecRank == InitRank /\ [][NextRank]_vars

(***************************************************************************)
(* Claims about rank_recipes                                               *)
(***************************************************************************)
\* a hard rule of the engine fails on the recipe, in the context
FailsHardRule(recipe, ctx) ==
    \/ ~DietCompatibilityRule(recipe, PlanningSnapshot(ctx)).passed
    \/ ~AllergenExclusionRule(recipe, PlanningSnapshot(ctx)).passed
    \/ ~MaxTimeRule(recipe, PlanningSnapshot(ctx)).passed

Recipes(evals) == {evals[k].recipe : k \in 1..Len(evals)}

\* C2: a recipe of the catalog on which the diet, the allergen or the time
\* rule fails is in no evaluation of the list under construction, nor of
\* the list rank_recipes returns.
C2_HardFailureExcluded ==
    \A k \in 1..Len(catalog) :
        FailsHardRule(catalog[k], context) =>
            /\ catalog[k] \notin Recipes(evaluations)
            /\ catalog[k] \notin Recipes(ranked1)
            /\ catalog[k] \notin Recipes(ranked2)

\* a returned ranking that kept one recipe of a catalog of three, one of the
\* others failing the diet rule and the other the time rule only
C2_Witness ==
    /\ pc = "ranked"
    /\ Len(catalog) = 3
    /\ Len(ranked1) = 1
    /\ \E k \in 1..3 : ~DietCompatibilityRule(catalog[k], PlanningSnapshot(context)).passed
    /\ \E k \in 1..3 :
          /\ DietCompatibilityRule(catalog[k], PlanningSnapshot(context)).passed
          /\ AllergenExclusionRule(catalog[k], PlanningSnapshot(context)).passed
          /\ ~MaxTimeRule(catalog[k], PlanningSnapshot(context)).passed

\* position of a recipe in the catalog
CatalogPos(recipe) == CHOOSE k \in 1..Len(catalog) : catalog[k] = recipe

Survivors == {k \in 1..Len(catalog) : ~FailsHardRule(catalog[k], context)}

\* C8: the returned list holds the surviving recipes in non-increasing order
\* of score, recipes of equal score in catalog order, and a second call with
\* the same context and catalog returns the same list.
C8_RankedOrder ==
    /\ pc \in {"ranked", "ranked_twice"} =>
          /\ Len(ranked1) = Cardinality(Survivors)
          /\ \A i, j \in 1..Len(ranked1) :
                i < j =>
                   /\ ranked1[i].score >= ranked1[j].score
                   /\ ranked1[i].score = ranked1[j].score =>
                          CatalogPos(ranked1[i].recipe) < CatalogPos(ranked1[j].recipe)
    /\ pc = "ranked_twice" => ranked2 = ranked1

\* three recipes returned, the first two tied and in catalog order, the best
\* of them not the first of the catalog
C8_Witness ==
    /\ pc = "ranked_twice"
    /\ Len(ranked1) = 3
    /\ ranked1[1].score = ranked1[2].score
    /\ ranked1[2].score > ranked1[3].score
    /\ CatalogPos(ranked1[3].recipe) = 1

(***************************************************************************)
(* generate_plan(context): the LLM attempt, then the rule-based generator  *)
(* over RECIPES                                                            *)
(***************************************************************************)
GpItems ==
    <<InventoryItem(1, "Chicken Thigh, Boneless", 30000, "g", Today + 1),
      InventoryItem(2, "Olive Oil", 50000, "ml", None),
      InventoryItem(3, "Garlic", 90000, "mg", None),
      InventoryItem(4, "Tofu", 40000, "g", None),
      InventoryItem(5, "Garlic Olive Oil", 3500, "g", None)>>

GpInventories ==
    {inv \in SeqsUpTo(Range(GpItems), MaxItems) :
        \A i, j \in 1..Len(inv) : i < j => inv[i].id < inv[j].id}

GpContexts ==
    {PlanningContext(Today, Preferences(diet, max_time, allergens), sit.recent_meals,
                     inv, sit.leftovers, sit.attendees) :
        diet \in {"", "omnivore", "Vegan"}, max_time \in {None, 10, 30},
        allergens \in {<<>>, <<"Garlic">>}, inv \in GpInventories,
        sit \in {[recent_meals |-> <<>>, leftovers |-> <<>>, attendees |-> None],
                 [recent_meals |-> <<RecentMeal(Today - 1, "Hearty Lentil Soup")>>,
                  leftovers |-> <<LeftoverItem("Tofu", 100, "g", None)>>,
                  attendees |-> 2]}}

\* the plans the LLM answers with: any JSON that validates as a Plan
GpLlmPlans ==
    {Plan(Today, <<>>),
     Plan(Today,
          <<PlanCandidate("Chef Special", 30, 2,
                          <<IngredientRequirement(1, "Chicken Thigh", Grams(450), None,
                                                  None)>>,
                          <<InventoryDelta(1, Grams(450), None, None)>>,
                          <<>>, NoMacros)>>)}

Settings(planner_llm_base_url) == [planner_llm_base_url |-> planner_llm_base_url]

\* no plan: the None of _generate_plan_with_llm
NoPlan == [none |-> TRUE]

Init ==
    /\ context \in GpContexts
    /\ settings \in {Settings(""), Settings("http://llm")}
    /\ pc = "generate_plan"
    /\ llm_plan = <<>>
    /\ candidates = <<>>
    /\ returned = <<>>
    /\ ReconcileIdle
    /\ RankIdle
    /\ OcrIdle

\* _generate_plan_with_llm: lines 712-716, no base url
LlmDisabled ==
    /\ pc = "generate_plan"
    /\ settings.planner_llm_base_url = ""
    /\ llm_plan' = NoPlan
    /\ pc' = "rule_based"
    /\ UNCHANGED <<context, settings, candidates, returned, reconcile_vars, rank_vars, ocr_vars>>

AfterLlmErrorRaised == "raised"

\* _generate_plan_with_llm: lines 735-737, `except Exception` logs and
\* returns None, and generate_plan goes on with the rule-based generator
AfterLlmError == "rule_based"

\* _generate_plan_with_llm: lines 719-737, the request, the parse or the
\* validation raised
LlmFailed ==
    /\ pc = "generate_plan"
    /\ settings.planner_llm_base_url # ""
    /\ llm_plan' = NoPlan
    /\ pc' = AfterLlmError
    /\ UNCHANGED <<context, settings, candidates, returned, reconcile_vars, rank_vars, ocr_vars>>

\* _generate_plan_with_llm: lines 719-734, the answer validated as a Plan
LlmAnswered ==
    /\ pc = "generate_plan"
    /\ settings.planner_llm_base_url # ""
    /\ llm_plan' \in GpLlmPlans
    /\ pc' = "llm_answered"
    /\ UNCHANGED <<context, settings, candidates, returned, reconcile_vars, rank_vars, ocr_vars>>

\* generate_plan: lines 697-698
ReturnLlmPlan ==
    /\ pc = "llm_answered"
    /\ returned' = llm_plan
    /\ pc' = "returned"
    /\ UNCHANGED <<context, settings, llm_plan, candidates, reconcile_vars, rank_vars, ocr_vars>>

\* _generate_rule_based_plan: lines 675-677
RankCatalog ==
    /\ pc = "rule_based"
    /\ catalog' = RECIPES
    /\ evaluations' = rank_recipes(context, RECIPES)
    /\ pc' = "ranked_catalog"
    /\ UNCHANGED <<context, snapshot, recipe_i, ranked1, ranked2, reconcile_vars,
                   plan_vars, ocr_vars>>

\* _generate_rule_based_plan: lines 679-682
BuildCandidates ==
    /\ pc = "ranked_catalog"
    /\ candidates' = BuildCandidatesOf(evaluations, context)
    /\ pc' = "built"
    /\ UNCHANGED <<context, settings, llm_plan, returned, reconcile_vars, rank_vars, ocr_vars>>

\* _generate_rule_based_plan: lines 684-688
Fallback ==
    /\ pc = "built"
    /\ candidates = <<>>
    /\ candidates' = <<FallbackOf(context)>>
    /\ UNCHANGED <<context, pc, settings, llm_plan, returned, reconcile_vars, rank_vars, ocr_vars>>

\* _generate_rule_based_plan: line 690, and generate_plan: lines 704-706
ReturnRuleBased ==
    /\ pc = "built"
    /\ candidates # <<>>
    /\ returned' = Plan(context.date, candidates)
    /\ pc' = "returned"
    /\ UNCHANGED <<context, settings, llm_plan, candidates, reconcile_vars, rank_vars, ocr_vars>>

Next ==
    \/ LlmDisabled
    \/ LlmFailed
    \/ LlmAnswered
    \/ ReturnLlmPlan
    \/ RankCatalog
    \/ BuildCandidates
    \/ Fallback
    \/ ReturnRuleBased

Spec == Init /\ [][Next]_vars

(***************************************************************************)
(* Claims about generate_plan                                              *)
(***************************************************************************)
\* generate_plan has returned the plan of the rule-based generator
RuleBasedReturned == pc = "returned" /\ llm_plan = NoPlan

\* C3: the plan generate_plan returns has been through DiffValidator.run.
\* run is idempotent on deltas, shortfalls and macros, so a plan that has
\* been through it is left as it is by one more pass over the same context.
C3_ReturnedPlanReconciled ==
    pc = "returned" =>
        LET again == run(context, returned).candidates
        IN  \A k \in 1..Len(returned.candidates) :
                SameOutcome(returned.candidates[k], again[k])

\* grams of the inventory item `id` as _build_inventory_state converts them
AvailableGrams(id) == IF id \in DOMAIN Stock THEN Stock[id].weight_g ELSE 0

\* C7: every delta of a candidate that _build_candidate made uses a
\* positive number of grams, no more than the grams its inventory item
\* holds, whatever the unit of the item.
C7_BuilderDeltaWithinStock ==
    RuleBasedReturned =>
        \A k \in 1..Len(returned.candidates) :
            \A d \in Range(returned.candidates[k].inventory_deltas) :
                /\ d.use_g > 0
                /\ d.use_g <= AvailableGrams(d.ingredient_id)

\* the catalog recipes a candidate can have been built from
BuiltFrom(candidate) == {r \in Range(RECIPES) : r.title = candidate.title}

\* C9: no candidate of a rule-based plan is built from a recipe with an
\* ingredient that contains a listed allergen, or that takes longer than
\* the household's maximum preparation time.
C9_NoAllergenNoOvertime ==
    RuleBasedReturned =>
        \A k \in 1..Len(returned.candidates) :
            \A r \in BuiltFrom(returned.candidates[k]) :
                /\ AllergenExclusionRule(r, PlanningSnapshot(context)).passed
                /\ MaxTimeRule(r, PlanningSnapshot(context)).passed

\* the recipes of RECIPES that pass the three hard rules
Surviving == {k \in 1..Len(RECIPES) : ~FailsHardRule(RECIPES[k], context)}

IsPlaceholder(candidate) ==
    /\ candidate.title = "Pantry Pasta"
    /\ candidate.inventory_deltas = <<>>
    /\ Len(candidate.shopping_shortfall) = 2
    /\ \A s \in Range(candidate.shopping_shortfall) : s.reason = "not_in_inventory"

\* C10: the rule-based path returns 1 to 3 candidates: one for each of
\* the (at most three) best ranked recipes when a recipe survives, else a
\* single one, built from the first recipe of the catalog when the
\* inventory is not empty and the pantry placeholder when it is.
C10_OneToThreeCandidates ==
    RuleBasedReturned =>
        LET cs == returned.candidates
            ranking == rank_recipes(context, RECIPES)
            lookup == build_inventory_index(context.inventory)
        IN  /\ Len(cs) \in 1..3
            /\ Len(ranking) = Cardinality(Surviving)
            /\ IF Surviving # {}
               THEN /\ Len(cs) = Min(3, Cardinality(Surviving))
                    /\ \A k \in 1..Len(cs) :
                          cs[k] = _build_candidate(ranking[k].recipe, context, lookup)
               ELSE /\ Len(cs) = 1
                    /\ IF context.inventory # <<>>
                       THEN cs[1] = _build_candidate(RECIPES[1], context, lookup)
                       ELSE IsPlaceholder(cs[1])

\* the three cases: more than three survivors, none with some inventory,
\* none with no inventory
C10_Witness ==
    /\ RuleBasedReturned
    /\ Surviving = {}
    /\ context.inventory = <<>>
    /\ IsPlaceholder(returned.candidates[1])

C10_WitnessTopThree ==
    /\ RuleBasedReturned
    /\ Cardinality(Surviving) = 5
    /\ Len(returned.candidates) = 3

C10_WitnessFirstRecipe ==
    /\ RuleBasedReturned
    /\ Surviving = {}
    /\ context.inventory # <<>>
    /\ returned.candidates[1].title = RECIPES[1].title

C11_Step ==
    /\ (pc = "generate_plan" /\ llm_plan' = NoPlan) => pc' = "rule_based"
    /\ (pc' = "returned" /\ llm_plan' = NoPlan) =>
           /\ returned' = _generate_rule_based_plan(context)
           /\ returned'.date = context.date
           /\ Len(returned'.candidates) >= 1

\* C11: when the LLM is not configured, or its request, parse or
\* validation raises, generate_plan goes on to the rule-based generator
\* instead of raising, and what it returns is the rule-based plan of the
\* same context, dated as the context, with at least one candidate.
C11_LlmFailureFallsBack == [][C11_Step]_vars

\* the LLM was configured and failed, and the rule-based plan was returned
C11_Witness ==
    /\ pc = "returned"
    /\ settings.planner_llm_base_url # ""
    /\ llm_plan = NoPlan
    /\ Len(returned.candidates) = 3

(***************************************************************************)
(* More claims about DiffValidator.run                                     *)
(***************************************************************************)
\* the step is one iteration of the requirement loop
RequirementStep == pc = "requirements" /\ pc' = "requirements" /\ ri' = ri + 1

CurrentRequirement == plan.candidates[ci].ingredients_required[ri]

\* the shortfalls the step added
Added == SubSeq(shortfalls', Len(shortfalls) + 1, Len(shortfalls'))

\* the inventory lists an item with the requirement's stated id, or one
\* with its normalised name
ResolvesToItem(requirement) ==
    \/ /\ requirement.ingredient_id # None
       /\ \E k \in 1..Len(context.inventory) :
             context.inventory[k].id = requirement.ingredient_id
    \/ \E k \in 1..Len(context.inventory) :
          _normalize_name(context.inventory[k].name) = _normalize_name(requirement.name)

\* the id of that item
ItemIdOf(requirement) ==
    IF /\ requirement.ingredient_id # None
       /\ \E k \in 1..Len(context.inventory) :
             context.inventory[k].id = requirement.ingredient_id
    THEN requirement.ingredient_id
    ELSE _resolve_inventory_id([requirement EXCEPT !.ingredient_id = None], name_index)

\* what is left of item `id` in the domain t, nothing if it holds no stock
RemainingOf(id, t) ==
    IF id \in DOMAIN candidate_inventory
    THEN _available_for_type(candidate_inventory[id], t)
    ELSE 0

C12_StepAsClaimed ==
    (RequirementStep /\ _extract_requirement_amount(CurrentRequirement).amount > 0) =>
        LET req == _extract_requirement_amount(CurrentRequirement)
            resolves == ResolvesToItem(CurrentRequirement)
            remaining == RemainingOf(ItemIdOf(CurrentRequirement), req.type)
        IN  /\ (\E k \in 1..Len(Added) : Added[k].reason = "not_in_inventory")
                  <=> ~resolves
            /\ \A k \in 1..Len(Added) :
                  Added[k].reason = "not_in_inventory" =>
                      NeedOf(Added[k], req.type) = req.amount
            /\ (resolves /\ remaining < req.amount) =>
                  \E k \in 1..Len(Added) :
                      /\ Added[k].reason = "insufficient_stock"
                      /\ NeedOf(Added[k], req.type) = req.amount - remaining

\* C12 as claimed: a requirement gets a not_in_inventory shortfall, for its
\* full amount, exactly when neither its stated id nor its normalised name
\* is that of an inventory item, and an insufficient_stock shortfall for the
\* residual whenever it resolves to an item whose stock in its domain is
\* below the requested amount.
C12_ReasonsAsClaimed == [][C12_StepAsClaimed]_vars

C12_Step ==
    (RequirementStep /\ _extract_requirement_amount(CurrentRequirement).amount > 0) =>
        LET req == _extract_requirement_amount(CurrentRequirement)
            id == _resolve_inventory_id(CurrentRequirement, name_index)
            held == id # None /\ id \in DOMAIN Stock
            residual == req.amount - Min(req.amount, RemainingOf(id, req.type))
        IN  IF ~held
            THEN /\ Len(Added) = 1
                 /\ Added[1].reason = "not_in_inventory"
                 /\ NeedOf(Added[1], req.type) = req.amount
            ELSE IF residual > Epsilon
            THEN /\ Len(Added) = 1
                 /\ Added[1].reason = "insufficient_stock"
                 /\ NeedOf(Added[1], req.type) = residual
            ELSE Added = <<>>

\* C12, amended: with the resolved id being the stated id if there is one
\* and the name lookup otherwise, a requirement gets a not_in_inventory
\* shortfall for its full amount exactly when that id is not an item held
\* with a positive quantity; otherwise it gets an insufficient_stock
\* shortfall for the residual exactly when the residual is above 1e-6.
C12_Reasons == [][C12_Step]_vars

\* the eggs are listed with quantity 0: asking for two of them by id gave
\* a not_in_inventory shortfall for both
C12_Witness ==
    /\ pc = "requirements"
    /\ ri = 2
    /\ \E k \in 1..Len(context.inventory) : context.inventory[k].id = 5
    /\ plan.candidates[ci].ingredients_required[1].ingredient_id = 5
    /\ Len(shortfalls) = 1
    /\ shortfalls[1].reason = "not_in_inventory"
    /\ shortfalls[1].need_count = 2000000

\* how many times `message` occurs in the list
Occurrences(diags, message) ==
    Cardinality({k \in 1..Len(diags) : diags[k] = message})

\* the inventory item with this id
ItemWithId(id) ==
    context.inventory[CHOOSE k \in 1..Len(context.inventory) :
                          context.inventory[k].id = id]

\* C15: when run has returned, every requirement of a candidate that
\* resolves to an inventory item whose unit is not recognised finds that
\* item's quantity in the count bucket only, and the reconciled candidate's
\* diagnostics hold that item's unit warning exactly once.
C15_UnitWarningOnce ==
    pc = "returned" =>
        \A k \in 1..Len(plan.candidates) :
            \A r \in 1..Len(plan.candidates[k].ingredients_required) :
                LET requirement == plan.candidates[k].ingredients_required[r]
                    id == _resolve_inventory_id(requirement, name_index)
                IN  (id # None /\ id \in DOMAIN unit_warnings) =>
                        /\ inventory_state[id].weight_g = 0
                        /\ inventory_state[id].volume_ml = 0
                        /\ inventory_state[id].count = ItemWithId(id).quantity * 10000
                        /\ Occurrences(result1.candidates[k].diagnostics,
                                       UnitWarning(ItemWithId(id))) = 1

\* the buckets that hold something
PositiveBuckets(buckets) ==
    {t \in {"g", "ml", "count"} : _available_for_type(buckets, t) > 0}

\* the item was converted as the tables say: quantity in hundredths, table
\* factors in 1e-4, buckets in millionths
ConvertedAsClaimed(item) ==
    LET unit == lower(strip(item.unit))
        buckets == inventory_state[item.id]
        warned == item.id \in DOMAIN unit_warnings
    IN  /\ Cardinality(PositiveBuckets(buckets)) = 1
        /\ IF unit \in DOMAIN _WEIGHT_UNITS
           THEN /\ buckets.weight_g = item.quantity * _WEIGHT_UNITS[unit]
                /\ ~warned
           ELSE IF unit \in DOMAIN _VOLUME_UNITS
           THEN /\ buckets.volume_ml = item.quantity * _VOLUME_UNITS[unit]
                /\ ~warned
           ELSE /\ buckets.count = item.quantity * 10000
                /\ warned <=> ~(unit = "" \/ unit \in _COUNT_UNITS)

\* 2 lb of stock and a requirement of 600 g of it
TwoPoundsFor600g ==
    /\ \E k \in 1..Len(context.inventory) :
          /\ context.inventory[k].id = 10
          /\ context.inventory[k].quantity = 200
          /\ context.inventory[k].unit = "lb"
    /\ Len(plan.candidates) >= 1
    /\ plan.candidates[1].ingredients_required =
          <<IngredientRequirement(10, "Ground Beef", 600000000, None, None)>>

\* C16: every inventory item of positive quantity is held in exactly one
\* bucket: a weight-table unit in grams and a volume-table unit in
\* millilitres, the quantity times the table factor, an empty or
\* count-synonym unit as count without a unit warning, any other unit as
\* count with a unit warning; and 2 lb (907.184 g) of stock cover a
\* requirement of 600 g: the candidate uses 600 g and has no shortfall.
C16_UnitsConverted ==
    /\ pc # "run" =>
          \A k \in 1..Len(context.inventory) :
              context.inventory[k].quantity > 0 =>
                  ConvertedAsClaimed(context.inventory[k])
    /\ (pc # "run" /\ TwoPoundsFor600g) =>
          inventory_state[10] = InventoryBuckets(907184000, 0, 0)
    /\ (pc = "returned" /\ TwoPoundsFor600g) =>
          /\ result1.candidates[1].inventory_deltas =
                <<InventoryDelta(10, 600000000, None, None)>>
          /\ result1.candidates[1].shopping_shortfall = <<>>

C16_Witness ==
    /\ pc = "returned"
    /\ TwoPoundsFor600g
    /\ result1.candidates[1].inventory_deltas[1].use_g = 600000000

\* the salt has an empty unit and the onion a count synonym: both were
\* converted
C16_WitnessCount ==
    /\ pc = "returned"
    /\ \E k \in 1..Len(context.inventory) : context.inventory[k].unit \in {"", "Each"}
    /\ \E id \in DOMAIN inventory_state : inventory_state[id].count > 0

\* grams + millilitres + 75 g per count over the requirements, in
\* millionths of a gram; a quantity that is not stated counts as nothing
RECURSIVE MassOf(_)
MassOf(reqs) ==
    IF Len(reqs) = 0 THEN 0
    ELSE Max(Head(reqs).quantity_g, 0) + Max(Head(reqs).quantity_ml, 0)
         + 75 * Max(Head(reqs).quantity_count, 0) + MassOf(Tail(reqs))

ServingsOf(candidate) == IF candidate.servings = None THEN 1 ELSE candidate.servings

\* value, in tenths, is the share num/den of mass / servings to within half
\* a tenth: 2 * |value - x| <= 1 for x = mass * num / (den * 100000 *
\* servings), with mass = hi * 1000 + lo
IsShare(value, mass, servings, num, den) ==
    LET d == den * 100 * servings
        hi == mass \div 1000
        lo == mass % 1000
        off == value * d - hi * num
    IN  /\ value # None
        /\ off >= -(d + num) /\ off <= d + num
        /\ 2000 * off - 2 * lo * num <= 1000 * d
        /\ 2 * lo * num - 2000 * off <= 1000 * d

\* C17: when run has returned, every candidate that came without a macro
\* estimate and with a positive total ingredient mass (grams + millilitres
\* + 75 g per count) carries the heuristic estimate for the mass per
\* serving (servings taken as 1 when not stated), each value to one
\* decimal: protein 25%, fat 8%, carbohydrate 67%, kcal 4.4 per gram (4 per
\* gram of protein and of carbohydrate, 9 per gram of fat), and the
\* 'Estimated macros' diagnostic; 1000 g over 2 servings give protein 125,
\* fat 40, carbohydrate 335, kcal 2200.
C17_MacrosEstimated ==
    pc = "returned" =>
        \A k \in 1..Len(plan.candidates) :
            LET candidate == plan.candidates[k]
                mass == MassOf(candidate.ingredients_required)
                servings == ServingsOf(candidate)
                macros == result1.candidates[k].macros_per_serving
            IN  (candidate.macros_per_serving = NoMacros /\ mass > 0) =>
                    /\ macros # NoMacros
                    /\ IsShare(macros.protein_g, mass, servings, 25, 100)
                    /\ IsShare(macros.fat_g, mass, servings, 8, 100)
                    /\ IsShare(macros.carb_g, mass, servings, 67, 100)
                    /\ IsShare(macros.kcal, mass, servings, 44, 10)
                    /\ Occurrences(result1.candidates[k].diagnostics, ESTIMATED_NOTE) = 1
                    /\ Occurrences(result1.candidates[k].diagnostics, ADJUSTED_NOTE) = 0
                    /\ (mass = 1000000000 /\ servings = 2) =>
                           macros = Macros(22000, 1250, 3350, 400)

\* 1000 g of chicken over 2 servings, estimated
C17_Witness ==
    /\ pc = "returned"
    /\ Len(plan.candidates) >= 1
    /\ plan.candidates[1].macros_per_serving = NoMacros
    /\ plan.candidates[1].servings = 2
    /\ MassOf(plan.candidates[1].ingredients_required) = 1000000000
    /\ result1.candidates[1].macros_per_serving = Macros(22000, 1250, 3350, 400)
    /\ ESTIMATED_NOTE \in Range(result1.candidates[1].diagnostics)

\* |a - b|
AbsDiff(a, b) == IF a >= b THEN a - b ELSE b - a

\* the normalised divergence of two estimates is above 0.2: the sum over
\* the four fields of |old - new| against the sum of max(old, new, 1.0),
\* in tenths, a value that is not stated counting as 0
DivergesAsClaimed(old, new) ==
    LET diff == [f \in MacroFields |-> AbsDiff(Max(old[f], 0), Max(new[f], 0))]
        most == [f \in MacroFields |-> Max(Max(old[f], new[f]), 10)]
    IN  5 * SumOver(MacroFields, diff) > SumOver(MacroFields, most)

\* C18: when run has returned, a candidate that came with a macro estimate
\* and a positive ingredient mass carries the recomputed estimate and the
\* 'Adjusted macros' diagnostic if the divergence of the two estimates is
\* above 0.2, and its original estimate and no macro diagnostic otherwise.
C18_AdjustedIffDivergent ==
    pc = "returned" =>
        \A k \in 1..Len(plan.candidates) :
            LET candidate == plan.candidates[k]
                mass == MassOf(candidate.ingredients_required)
                old == candidate.macros_per_serving
                new == EstimateMacros(mass, ServingsOf(candidate))
                diags == result1.candidates[k].diagnostics
            IN  (old # NoMacros /\ mass > 0) =>
                    /\ Occurrences(diags, ESTIMATED_NOTE) = 0
                    /\ IF DivergesAsClaimed(old, new)
                       THEN /\ result1.candidates[k].macros_per_serving = new
                            /\ Occurrences(diags, ADJUSTED_NOTE) = 1
                       ELSE /\ result1.candidates[k].macros_per_serving = old
                            /\ Occurrences(diags, ADJUSTED_NOTE) = 0

(***************************************************************************)
(* More claims about the candidate builder                                 *)
(***************************************************************************)
\* the ingredients of a recipe that resolve to no item of the inventory
Unmatched(recipe) ==
    {k \in 1..Len(recipe.ingredients) :
        resolve_inventory_item(normalize_name(recipe.ingredients[k].name),
                               build_inventory_index(context.inventory)) = NoItem}

\* the shortfalls of a candidate recorded for an unmatched ingredient
MissingShortfalls(candidate, ingredient) ==
    {j \in 1..Len(candidate.shopping_shortfall) :
        /\ candidate.shopping_shortfall[j].ingredient_id = None
        /\ candidate.shopping_shortfall[j].name = ingredient.name}

\* C13: in a candidate of the builder, an ingredient that resolves to no
\* inventory item gives a requirement without ingredient id; if it is not
\* optional it gives one not_in_inventory shortfall for its full amount,
\* and if it is optional it gives no shortfall.
C13_OptionalUnmatched ==
    RuleBasedReturned =>
        \A c \in Range(returned.candidates) : \A r \in BuiltFrom(c) :
            \A k \in Unmatched(r) :
                LET ingredient == r.ingredients[k]
                    missing == MissingShortfalls(c, ingredient)
                IN  /\ c.ingredients_required[k].ingredient_id = None
                    /\ c.ingredients_required[k].name = ingredient.name
                    /\ c.ingredients_required[k].quantity_g = Grams(ingredient.quantity_g)
                    /\ Cardinality(missing) = (IF ingredient.optional THEN 0 ELSE 1)
                    /\ \A j \in missing :
                          /\ c.shopping_shortfall[j].reason = "not_in_inventory"
                          /\ c.shopping_shortfall[j].need_g = Grams(ingredient.quantity_g)

\* the first recipe with no lemon and no broccoli in the inventory: the
\* optional lemon has no shortfall, the broccoli has one for 300 g
C13_Witness ==
    /\ RuleBasedReturned
    /\ returned.candidates[1].title = RECIPES[1].title
    /\ {2, 3} \subseteq Unmatched(RECIPES[1])
    /\ MissingShortfalls(returned.candidates[1], RECIPES[1].ingredients[2]) = {}
    /\ \E j \in MissingShortfalls(returned.candidates[1], RECIPES[1].ingredients[3]) :
          returned.candidates[1].shopping_shortfall[j].need_g = Grams(300)

(***************************************************************************)
(* More claims about the rules and rank_recipes                            *)
(***************************************************************************)
\* the recipes of the catalog that rank_recipes has evaluated so far
Evaluated == IF pc = "rank" THEN {} ELSE {catalog[k] : k \in 1..(recipe_i - 1)}

\* the diet rule as stated: no preference, or the preference among the
\* tags, or the tag "flexible"
DietPassesAsClaimed(recipe) ==
    LET diet == lower(strip(context.prefs.diet))
        recipe_tags == {normalize_name(tag) : tag \in recipe.tags}
    IN  diet = "" \/ diet \in recipe_tags \/ "flexible" \in recipe_tags

\* C14: the diet rule passes a recipe exactly when no diet is set, or its
\* tags contain the diet, or they contain "flexible"; a recipe for which
\* none of these holds is not in the output of rank_recipes.
C14_DietRuleFlexible ==
    \A recipe \in Evaluated :
        /\ DietCompatibilityRule(recipe, snapshot).passed <=> DietPassesAsClaimed(recipe)
        /\ ~DietPassesAsClaimed(recipe) =>
               recipe \notin Recipes(evaluations) \cup Recipes(ranked1)

\* the names of the configured rules, hard rules first
RuleOrder ==
    <<"diet_compatibility", "allergen_exclusion", "time_limit",
      "inventory_coverage", "expiry_priority", "leftover_utilization",
      "recency_penalty", "attendee_scaling">>

\* C19: every evaluation, of the list under construction and of the list
\* rank_recipes returns, holds the results of the three hard rules and then
\* of the five soft rules in their configured order, every result has
\* passed, the results of the hard rules carry no score adjustment, and the
\* score is the sum of the adjustments of the soft rules' results.
C19_RuleResultsAsClaimed ==
    \A e \in Range(evaluations) \cup Range(ranked1) :
        /\ [k \in 1..Len(e.rule_results) |-> e.rule_results[k].name] = RuleOrder
        /\ \A k \in 1..Len(e.rule_results) : e.rule_results[k].passed
        /\ \A k \in 1..3 : e.rule_results[k].score_adjustment = 0
        /\ e.score = SumTo([k \in 1..5 |-> e.rule_results[3 + k].score_adjustment], 5)

(***************************************************************************)
(* More claims about the candidates of _build_candidate                    *)
(***************************************************************************)
\* the grams all deltas of the list take from item `id`
UseOf(deltas, id) ==
    SumTo([i \in 1..Len(deltas) |->
              IF deltas[i].ingredient_id = id THEN Max(deltas[i].use_g, 0) ELSE 0],
          Len(deltas))

\* C20: in every candidate the builder has made, the deltas that name one
\* inventory item use together no more than the quantity the inventory
\* lists for it, also when several ingredients of the recipe were resolved
\* to that item.
C20_DeltasTogetherWithinStock ==
    pc = "built" =>
        \A k \in 1..Len(candidates) :
            \A d \in Range(candidates[k].inventory_deltas) :
                UseOf(candidates[k].inventory_deltas, d.ingredient_id)
                    <= RawAsGrams(ItemWithId(d.ingredient_id).quantity)

\* every item of the inventory is stored in grams, with a positive quantity
AllInGrams ==
    \A k \in 1..Len(context.inventory) :
        /\ context.inventory[k].unit = "g"
        /\ context.inventory[k].quantity > 0

\* what a candidate uses: the id and the grams of each delta
UsageOf(candidate) ==
    {[ingredient_id |-> d.ingredient_id, use_g |-> d.use_g] :
        d \in Range(candidate.inventory_deltas)}

\* what a candidate lacks: the id, the grams and the reason of each shortfall
ShortageOf(candidate) ==
    {[ingredient_id |-> short.ingredient_id, need_g |-> short.need_g,
      reason |-> short.reason] : short \in Range(candidate.shopping_shortfall)}

\* C21: with an inventory stored in grams, all quantities positive, run
\* on the plan of the candidates the builder has made from the context
\* gives every candidate the deltas and the shortfalls (ids, amounts and
\* reasons) the builder gave it.
C21_BuilderAndRunAgree ==
    (pc = "built" /\ AllInGrams) =>
        LET reconciled == run(context, Plan(context.date, candidates)).candidates
        IN  \A k \in 1..Len(candidates) :
                /\ UsageOf(reconciled[k]) = UsageOf(candidates[k])
                /\ ShortageOf(reconciled[k]) = ShortageOf(candidates[k])

(***************************************************************************)
(* Claims about the requirements DiffValidator.run accounts for            *)
(***************************************************************************)
\* the domains in which the requirement states a positive quantity
PositiveDomains(requirement) ==
    {t \in {"g", "ml", "count"} :
        (IF t = "g" THEN requirement.quantity_g
         ELSE IF t = "ml" THEN requirement.quantity_ml
         ELSE requirement.quantity_count) > 0}

\* the ids the usage list names
UsedIds(u) == {u[k].ingredient_id : k \in 1..Len(u)}

C22_Step ==
    (RequirementStep /\ PositiveDomains(CurrentRequirement) # {}) =>
        \E t \in PositiveDomains(CurrentRequirement) :
            \/ \E id \in UsedIds(usage') :
                   Max(UsedOf(usage', id, t), 0) > Max(UsedOf(usage, id, t), 0)
            \/ \E k \in 1..Len(Added) : NeedOf(Added[k], t) > 0

\* C22: every step of the requirement loop over a requirement that states
\* a positive quantity in grams, millilitres or count adds usage or a
\* shortfall in a domain where its quantity is positive: no such
\* requirement is dropped, in particular not one with qty_g = 0 and
\* qty_ml > 0.
C22_NoRequirementDropped == [][C22_Step]_vars

(***************************************************************************)
(* Claims about the soft rules, on the recipes rank_recipes has evaluated  *)
(***************************************************************************)
\* the leftovers of the context that an ingredient of the recipe matches by
\* name: equal, or one name within the other
MatchedLeftovers(recipe) ==
    {l \in Range(context.leftovers) :
        \E k \in 1..Len(recipe.ingredients) :
            LET ingredient == normalize_name(recipe.ingredients[k].name)
                leftover == normalize_name(l.name)
            IN  Contains(ingredient, leftover) \/ Contains(leftover, ingredient)}

\* C23: on every recipe evaluated, the leftover rule adjusts the score by
\* +0.8 for each distinct leftover the recipe matches by name, by -0.1 when
\* the context has leftovers and the recipe matches none, and by 0 when the
\* context has no leftovers.
C23_LeftoverBonusPerLeftover ==
    \A recipe \in Evaluated :
        LeftoverUtilizationRule(recipe, snapshot).score_adjustment =
            IF context.leftovers = <<>> THEN 0
            ELSE IF MatchedLeftovers(recipe) = {} THEN -1000
            ELSE 8000 * Cardinality(MatchedLeftovers(recipe))

\* the recent meals that bear the recipe's title, normalised
ServingsOfTitle(recipe) ==
    {m \in Range(context.recent_meals) :
        normalize_name(m.title) = normalize_name(recipe.title)}

\* the penalty for a serving days_since days ago, in 1e-4
PenaltyAsClaimed(days_since) == Max(15000 - 2000 * days_since, 3000)

\* C24: on every recipe evaluated, the recency rule adjusts the score by
\* -max(1.5 - 0.2 * days_since, 0.3) for a serving of the recipe's title
\* among the recent meals, and by +0.3 in every other case.
C24_RecencyPenaltyOrBonus ==
    \A recipe \in Evaluated :
        LET adjustment == RecencyPenaltyRule(recipe, snapshot).score_adjustment
        IN  IF ServingsOfTitle(recipe) # {}
            THEN \E m \in ServingsOfTitle(recipe) :
                    adjustment = -PenaltyAsClaimed(context.date - m.date)
            ELSE adjustment = 3000

\* C29: on every recipe evaluated whose title occurs among the recent
\* meals, the recency penalty is the one of the most recent serving of that
\* title, wherever it stands in the list.
C29_MostRecentServing ==
    \A recipe \in Evaluated :
        ServingsOfTitle(recipe) # {} =>
            \E m \in ServingsOfTitle(recipe) :
                /\ \A other \in ServingsOfTitle(recipe) : other.date <= m.date
                /\ RecencyPenaltyRule(recipe, snapshot).score_adjustment =
                       -PenaltyAsClaimed(context.date - m.date)

\* the inventory item an ingredient of the recipe resolves to, NoItem if none
ItemFor(recipe, k) ==
    resolve_inventory_item(normalize_name(recipe.ingredients[k].name),
                           snapshot.inventory_index)

MissingOf(recipe) == {k \in 1..Len(recipe.ingredients) : ItemFor(recipe, k) = NoItem}

MatchedOf(recipe) == (1..Len(recipe.ingredients)) \ MissingOf(recipe)

\* min(available / needed, 1) in 1e-4, 1 when nothing is needed; the item's
\* quantity is in hundredths and the need in whole grams
RatioAsClaimed(recipe, k) ==
    LET available == ItemFor(recipe, k).quantity
        needed == recipe.ingredients[k].quantity_g
    IN  IF needed <= 0 \/ available >= 100 * needed THEN 10000
        ELSE IF available <= 0 THEN 0
        ELSE (available * 100) \div needed

\* the matched ingredients that the recipe names as primary
PrimaryCovered(recipe) ==
    {k \in MatchedOf(recipe) :
        \E name \in Range(recipe.primary_ingredients) :
            normalize_name(name) = normalize_name(recipe.ingredients[k].name)}

CoverageAsClaimed(recipe) ==
    IF MatchedOf(recipe) = {} THEN -10000
    ELSE LET n == Len(recipe.ingredients)
             ratios == [k \in 1..n |->
                           IF k \in MatchedOf(recipe) THEN RatioAsClaimed(recipe, k) ELSE 0]
             mean == SumTo(ratios, n) \div Cardinality(MatchedOf(recipe))
         IN  (15 * mean) \div 10 - 4000 * Cardinality(MissingOf(recipe))
                 + 6000 * Cardinality(PrimaryCovered(recipe))

\* C25: on every recipe evaluated the coverage rule passes, and for a
\* recipe with ingredients its adjustment is 1.5 * mean(coverage ratios)
\* - 0.4 * missing + 0.6 * primary ingredients covered, the ratio of a
\* matched ingredient being min(available / needed, 1), or 1 when nothing
\* is needed, and exactly -1.0 when every ingredient is missing.
C25_CoverageScore ==
    \A recipe \in Evaluated :
        /\ InventoryCoverageRule(recipe, snapshot).passed
        /\ recipe.ingredients # <<>> =>
               InventoryCoverageRule(recipe, snapshot).score_adjustment
                   = CoverageAsClaimed(recipe)

\* the longest preparation time a household can state
MaxPreference == 240

\* C26: the time rule passes a recipe exactly when its estimated minutes
\* are at most the household's maximum, and with no maximum stated it
\* applies a default limit, one of the values a maximum can take, in its
\* place.
C26_TimeLimitOrDefault ==
    \E default \in 0..MaxPreference :
        \A recipe \in Evaluated :
            LET max_time == context.prefs.max_time_min
                limit == IF max_time = None THEN default ELSE max_time
            IN  MaxTimeRule(recipe, snapshot).passed <=> recipe.estimated_time_min <= limit

\* C30: the allergen rule fails a recipe evaluated only if a listed
\* allergen that is not blank is, ignoring case, within the name of one of
\* its ingredients; a blank entry excludes no recipe.
C30_BlankAllergenExcludesNothing ==
    \A recipe \in Evaluated :
        ~AllergenExclusionRule(recipe, snapshot).passed =>
            \E allergen \in Range(context.prefs.allergens) :
                /\ strip(allergen) # ""
                /\ \E k \in 1..Len(recipe.ingredients) :
                       Contains(lower(recipe.ingredients[k].name), lower(strip(allergen)))

(***************************************************************************)
(* The receipt OCR pipeline: ReceiptOcrService.process_receipt             *)
(* (ocr/pipeline.py), the polling worker (ocr/worker.py) and the receipt   *)
(* tables (db/receipts.py).  A receipt is modelled by what its blob        *)
(* decodes to and by where the blob is; the OCR row by its status and the  *)
(* metadata of its payload.  The worker and a caller that runs OCR on      *)
(* request (POST /receipts/{id}/ocr) each hold the locals of their own     *)
(* process_receipt call and interleave between database transactions.      *)
(***************************************************************************)
MaxReceipts == 2
MaxManualRuns == 2

\* ReceiptOcrWorker._batch_size, the limit handed to the claimer
batch_size == 1

ReceiptIds == 1..MaxReceipts

Callers == {"worker", "manual"}

\* what the pipeline finds in the blob: text with items to ingest, text
\* without any, or nothing it can decode
ReceiptKinds == {"items", "no_items", "undecodable"}

NoMetadata == [none |-> TRUE]

\* the metadata dictionary, by the keys the pipeline reads or writes
Metadata(parsed, auto_ingested, reason) ==
    [parsed |-> parsed, auto_ingested |-> auto_ingested, reason |-> reason]

ReceiptOcrResult(status, metadata) == [status |-> status, metadata |-> metadata]

NotCalling == [pc |-> "idle", receipt_id |-> 0, auto_ingest_allowed |-> TRUE]

\* a row of receipt_ocr_results is touched: onupdate=func.now()
Touch(order, receipt_id) ==
    LET Other(id) == id # receipt_id
    IN  SelectSeq(order, Other) \o <<receipt_id>>

RECURSIVE TouchAll(_, _)
TouchAll(order, ids) ==
    IF ids = <<>> THEN order ELSE TouchAll(Touch(order, Head(ids)), Tail(ids))

\* store_receipt: the blob is in the row and the OCR row starts pending
store_receipt(kind) == [kind |-> kind, content |-> "stored"]

\* claim_receipts_for_ocr: the rows pending or failed, oldest update first,
\* at most `limit` of them
claim_receipts_for_ocr(limit) ==
    LET Waiting(id) == ocr_results[id].status \in {"pending", "failed"}
        rows == SelectSeq(updated_order, Waiting)
    IN  SubSeq(rows, 1, Min(limit, Len(rows)))

\* update_receipt_ocr: status and payload are both overwritten
update_receipt_ocr(receipt_id, status, metadata) ==
    /\ ocr_results' = [ocr_results EXCEPT ![receipt_id] = ReceiptOcrResult(status, metadata)]
    /\ updated_order' = Touch(updated_order, receipt_id)

\* fetch_receipt_blob raises ValueError when the archived file is gone
fetch_receipt_blob_raises(receipt_id) == receipts[receipt_id].content = "missing"

\* offload_receipt_content: a blob still in the row moves to the archive
offload_receipt_content(receipt_id) ==
    IF receipts[receipt_id].content = "stored"
    THEN [receipts EXCEPT ![receipt_id].content = "archived"]
    ELSE receipts

InitOcr ==
    /\ context = PlanningContext(Today, Preferences("", None, <<>>), <<>>, <<>>, <<>>, None)
    /\ pc = "ocr"
    /\ receipts \in [ReceiptIds -> {store_receipt(kind) : kind \in ReceiptKinds}]
    /\ ocr_results = [id \in ReceiptIds |-> ReceiptOcrResult("pending", NoMetadata)]
    /\ updated_order = [k \in 1..MaxReceipts |-> k]
    /\ ingested = [id \in ReceiptIds |-> 0]
    /\ receipt_ids = <<>>
    /\ processed = 0
    /\ calls = [caller \in Callers |-> NotCalling]
    /\ manual_runs = 0
    /\ ReconcileIdle
    /\ RankIdle
    /\ PlanIdle

OcrOthersUnchanged == UNCHANGED <<context, pc, reconcile_vars, rank_vars, plan_vars>>

\* poll_once: line 68 and claim_receipts_for_ocr, one transaction
PollOnce ==
    /\ calls["worker"].pc = "idle"
    /\ receipt_ids = <<>>
    /\ LET claimed == claim_receipts_for_ocr(batch_size)
       IN  /\ receipt_ids' = claimed
           /\ ocr_results' = [id \in ReceiptIds |->
                                 IF id \in Range(claimed)
                                 THEN [ocr_results[id] EXCEPT !.status = "processing"]
                                 ELSE ocr_results[id]]
           /\ updated_order' = TouchAll(updated_order, claimed)
    /\ processed' = 0
    /\ UNCHANGED <<receipts, ingested, calls, manual_runs>>
    /\ OcrOthersUnchanged

\* poll_once: lines 70-72, the next claimed receipt is handed to the service
WorkerNext ==
    /\ calls["worker"].pc = "idle"
    /\ receipt_ids # <<>>
    /\ calls' = [calls EXCEPT !["worker"] =
                    [pc |-> "read", receipt_id |-> Head(receipt_ids),
                     auto_ingest_allowed |-> TRUE]]
    /\ UNCHANGED <<receipts, ocr_results, updated_order, ingested, receipt_ids,
                   processed, manual_runs>>
    /\ OcrOthersUnchanged

\* POST /receipts/{receipt_id}/ocr: process_receipt on request
ManualRun(receipt_id) ==
    /\ calls["manual"].pc = "idle"
    /\ manual_runs < MaxManualRuns
    /\ manual_runs' = manual_runs + 1
    /\ calls' = [calls EXCEPT !["manual"] =
                    [pc |-> "read", receipt_id |-> receipt_id,
                     auto_ingest_allowed |-> TRUE]]
    /\ UNCHANGED <<receipts, ocr_results, updated_order, ingested, receipt_ids, processed>>
    /\ OcrOthersUnchanged

\* process_receipt: lines 84-87
ReadStatus(caller) ==
    /\ calls[caller].pc = "read"
    /\ LET existing_status == ocr_results[calls[caller].receipt_id]
           auto_ingest_allowed ==
               IF existing_status.metadata # NoMetadata
               THEN ~existing_status.metadata.auto_ingested
               ELSE TRUE
       IN  calls' = [calls EXCEPT ![caller].pc = "prepare",
                                  ![caller].auto_ingest_allowed = auto_ingest_allowed]
    /\ UNCHANGED <<receipts, ocr_results, updated_order, ingested, receipt_ids,
                   processed, manual_runs>>
    /\ OcrOthersUnchanged

\* process_receipt: lines 90-91, the context is prepared and the row is
\* set to processing, its payload to null
Prepared(caller) ==
    /\ calls[caller].pc = "prepare"
    /\ ~fetch_receipt_blob_raises(calls[caller].receipt_id)
    /\ receipts[calls[caller].receipt_id].kind # "undecodable"
    /\ update_receipt_ocr(calls[caller].receipt_id, "processing", NoMetadata)
    /\ calls' = [calls EXCEPT ![caller].pc = "ocr"]
    /\ UNCHANGED <<receipts, ingested, receipt_ids, processed, manual_runs>>
    /\ OcrOthersUnchanged

\* process_receipt: lines 108-118, _prepare_context raised UnsupportedReceiptError
Unsupported(caller) ==
    /\ calls[caller].pc = "prepare"
    /\ ~fetch_receipt_blob_raises(calls[caller].receipt_id)
    /\ receipts[calls[caller].receipt_id].kind = "undecodable"
    /\ update_receipt_ocr(calls[caller].receipt_id, "failed",
                          Metadata(FALSE, FALSE, "unsupported"))
    /\ calls' = [calls EXCEPT ![caller].pc = "failed"]
    /\ UNCHANGED <<receipts, ingested, receipt_ids, processed, manual_runs>>
    /\ OcrOthersUnchanged

\* process_receipt: lines 119-121, the ValueError of fetch_receipt_blob is
\* raised again and the row is left as it is
NotFoundRaised(caller) ==
    /\ calls[caller].pc = "prepare"
    /\ fetch_receipt_blob_raises(calls[caller].receipt_id)
    /\ calls' = [calls EXCEPT ![caller].pc = "raised"]
    /\ UNCHANGED <<receipts, ocr_results, updated_order, ingested, receipt_ids,
                   processed, manual_runs>>
    /\ OcrOthersUnchanged

\* process_receipt: lines 92-107 with _run_ocr lines 260-287; the items are
\* ingested when there are any and the caller may, and only then does the
\* metadata carry auto_ingested
Succeeded(caller) ==
    /\ calls[caller].pc = "ocr"
    /\ LET receipt_id == calls[caller].receipt_id
           ingestion_items == receipts[receipt_id].kind = "items"
           auto_ingest == calls[caller].auto_ingest_allowed
       IN  /\ ingested' = IF auto_ingest /\ ingestion_items
                          THEN [ingested EXCEPT ![receipt_id] = @ + 1]
                          ELSE ingested
           /\ update_receipt_ocr(receipt_id, "succeeded",
                                 Metadata(TRUE, auto_ingest /\ ingestion_items, ""))
    /\ calls' = [calls EXCEPT ![caller].pc = "succeeded"]
    /\ UNCHANGED <<receipts, receipt_ids, processed, manual_runs>>
    /\ OcrOthersUnchanged

\* process_receipt: lines 122-129, the OCR engine raised; the row fails and
\* its payload is null
Crashed(caller) ==
    /\ calls[caller].pc = "ocr"
    /\ update_receipt_ocr(calls[caller].receipt_id, "failed", NoMetadata)
    /\ calls' = [calls EXCEPT ![caller].pc = "failed"]
    /\ UNCHANGED <<receipts, ingested, receipt_ids, processed, manual_runs>>
    /\ OcrOthersUnchanged

\* poll_once: lines 73-83, the result came back; a succeeded receipt is
\* archived
WorkerProcessed ==
    /\ calls["worker"].pc \in {"succeeded", "failed"}
    /\ receipts' = IF calls["worker"].pc = "succeeded"
                   THEN offload_receipt_content(calls["worker"].receipt_id)
                   ELSE receipts
    /\ processed' = processed + 1
    /\ receipt_ids' = Tail(receipt_ids)
    /\ calls' = [calls EXCEPT !["worker"] = NotCalling]
    /\ UNCHANGED <<ocr_results, updated_order, ingested, manual_runs>>
    /\ OcrOthersUnchanged

\* poll_once: lines 84-85, the exception is logged and the loop goes on
WorkerLogged ==
    /\ calls["worker"].pc = "raised"
    /\ receipt_ids' = Tail(receipt_ids)
    /\ calls' = [calls EXCEPT !["worker"] = NotCalling]
    /\ UNCHANGED <<receipts, ocr_results, updated_order, ingested, processed, manual_runs>>
    /\ OcrOthersUnchanged

\* receipts_ocr_process returns the result or answers 404
ManualReturned ==
    /\ calls["manual"].pc \in {"succeeded", "failed", "raised"}
    /\ calls' = [calls EXCEPT !["manual"] = NotCalling]
    /\ UNCHANGED <<receipts, ocr_results, updated_order, ingested, receipt_ids,
                   processed, manual_runs>>
    /\ OcrOthersUnchanged

\* the archived file of a receipt is removed from the archive directory
ArchiveRemoved(receipt_id) ==
    /\ receipts[receipt_id].content = "archived"
    /\ receipts' = [receipts EXCEPT ![receipt_id].content = "missing"]
    /\ UNCHANGED <<ocr_results, updated_order, ingested, receipt_ids, processed, calls,
                   manual_runs>>
    /\ OcrOthersUnchanged

process_receipt(caller) ==
    \/ ReadStatus(caller)
    \/ Prepared(caller)
    \/ Unsupported(caller)
    \/ NotFoundRaised(caller)
    \/ Succeeded(caller)
    \/ Crashed(caller)

\* the steps of the worker thread
poll_once ==
    \/ PollOnce
    \/ WorkerNext
    \/ process_receipt("worker")
    \/ WorkerProcessed
    \/ WorkerLogged

NextOcr ==
    \/ poll_once
    \/ \E receipt_id \in ReceiptIds : ManualRun(receipt_id)
    \/ process_receipt("manual")
    \/ ManualReturned
    \/ \E receipt_id \in ReceiptIds : ArchiveRemoved(receipt_id)

SpecOcr == InitOcr /\ [][NextOcr]_vars

\* _run_loop polls until it is stopped and each step of a poll ends; a
\* call made on request, once begun, runs to its end as well
SpecOcrFair ==
    /\ SpecOcr
    /\ WF_vars(poll_once)
    /\ WF_vars(process_receipt("manual") \/ ManualReturned)

\* C27: whatever process_receipt calls are made on a receipt, by the worker
\* or on request, succeeding or failing, its parsed items are ingested
\* into the inventory at most once.
C27_IngestedAtMostOnce ==
    \A receipt_id \in DOMAIN ingested : ingested[receipt_id] <= 1

\* the receipt was claimed by the worker and its call has not come back
Claimed(receipt_id) == receipt_id \in Range(receipt_ids)

Settled(receipt_id) == ocr_results[receipt_id].status \in {"succeeded", "failed"}

\* C28: while the worker keeps polling, every receipt a claim moved to
\* processing eventually is succeeded or failed, and a failed receipt is
\* eventually claimed again unless a run on request settles it first.
C28_ClaimedEventuallySettled ==
    \A receipt_id \in ReceiptIds :
        /\ (receipt_id \in DOMAIN ocr_results /\ Claimed(receipt_id))
              ~> (Settled(receipt_id))
        /\ (receipt_id \in DOMAIN ocr_results
                /\ ocr_results[receipt_id].status = "failed")
              ~> (ocr_results[receipt_id].status # "failed")

====
